---------------------------- MODULE Spec2Model ----------------------------
(***************************************************************************)
(* The GX35 engine control unit: the mode state machine of loop(), the     *)
(* tachometer and killswitch interrupt handlers and the four one-shot      *)
(* timers of the fuel and spark pipelines (src/src/ecu/ecu.ino, with the   *)
(* constants and macros of src/ecu/src/main/ecu.ino).                      *)
(*                                                                         *)
(* Units.  Times are microseconds, as micros() and the timers count them.  *)
(* The floats of the program are fixed-point integers:                     *)
(*   currAngularSpeed   micro-degrees per microsecond (1E-6 deg/us),       *)
(*   angles             milli-degrees; currEngineAngle, which the delays   *)
(*                      of the timers are computed from, keeps the rest in *)
(*                      micro-degrees too, so that it is exact,            *)
(*   currRPM            whole revolutions per minute (rounded down, which  *)
(*                      keeps every comparison with an integer threshold), *)
(*   fuelDuration       picoseconds (1E-6 us).                             *)
(* The main loop is cut into steps at every access to a variable that an   *)
(* interrupt handler shares with it; an interrupt handler runs to          *)
(* completion and is one step.  Main-loop steps take no time of their own: *)
(* time passes in Advance, between any two steps.                          *)
(***************************************************************************)
EXTENDS Integers, Sequences, FiniteSets, TLC

(***************************************************************************)
(* Program constants.                                                      *)
(***************************************************************************)
TDC == 360
DWELL_TIME == 3000
CALIB_ANGLE == 30
FUEL_END_ANGLE == 120
ENGAGE_SPEED == 100
CRANKING_SPEED == 500
UPPER_REV_LIMIT == 6000
LOWER_REV_LIMIT == 5800
CRANK_SPARK_ADV == 10

\* CRANK_VOL_EFF 0.30f, as hundredths
CRANK_VOL_EFF == 30

\* ENGINE_DISPLACEMENT 35.8E-6 m^3, in units of 1E-7 m^3
ENGINE_DISPLACEMENT == 358

\* R_CONSTANT 8.314f, as thousandths
R_CONSTANT == 8314

\* MOLAR_MASS_AIR 28.97f, as hundredths
MOLAR_MASS_AIR == 2897

\* AIR_FUEL_RATIO 14.7f, as hundredths
AIR_FUEL_RATIO == 1470

\* MASS_FLOW_RATE 0.0006f kg/s, as 1E-4 kg/s
MASS_FLOW_RATE == 6

\* the states of the mode state machine (typedef enum state)
READ_SENSORS == "READ_SENSORS"
CALIBRATION == "CALIBRATION"
CRANKING == "CRANKING"
RUNNING == "RUNNING"
REV_LIMITER == "REV_LIMITER"
SERIAL_OUT == "SERIAL_OUT"

States == {READ_SENSORS, CALIBRATION, CRANKING, RUNNING, REV_LIMITER, SERIAL_OUT}

\* pin levels
HIGH == TRUE
LOW == FALSE

\* the four timers
FUEL_START_TIMER == "FUEL_START"
FUEL_STOP_TIMER == "FUEL_STOP"
SPARK_CHARGE_TIMER == "SPARK_CHARGE"
SPARK_DISCHARGE_TIMER == "SPARK_DISCHARGE"

Timers == {FUEL_START_TIMER, FUEL_STOP_TIMER, SPARK_CHARGE_TIMER, SPARK_DISCHARGE_TIMER}

(***************************************************************************)
(* Bounds of the model.                                                    *)
(***************************************************************************)
\* the runs of the engine: the intervals [us] between the tachometer edges
\* of a run, the first counted from start-up.  18000 us and 11000 us are a
\* running engine, 6000 us an over-revving one, 200000 us a cranking one and
\* 1000000 us and 10000000 us one that turns slower than the engage speed.
SpeedUp3 == <<18000, 11000, 11000>>
OverRev2 == <<6000, 11000>>
Cranking2 == <<200000, 200000>>
SpinDown5 == <<6000, 10000000, 10000000, 10000000, 10000000>>
SpinUp9 == <<1000000, 1000000, 1000000, 1000000, 1000000, 1000000, 1000000, 1000000,
             11000>>
\* runs that bring the rpm to the limits of the partition of CALIBRATION,
\* 100, 500 and 6000 rpm, and to one rpm below each
AtLimits3 == <<420000, 89361, 7179>>
BelowLimits3 == <<420701, 89361, 7180>>

\* a run in which the late pass of the loop finds the engine within one
\* microsecond before the angle at which the coil is to be charged
OnTheAngle1 == <<8056>>
Drives == {SpeedUp3, OverRev2, Cranking2, SpinDown5, SpinUp9, AtLimits3, BelowLimits3,
           OnTheAngle1}

\* the runs of the engine while setup() executes
SetupDrives == {OverRev2, Cranking2}

\* the runs of the engine under the fairness conditions
FairDrives == {OverRev2, Cranking2, SpinUp9}

\* the times [us] after a tachometer edge at which a late pass of the loop
\* is looked at, besides the instants of the edges and of the timers
LoopDelays == {6750}

\* the passes of the loop and the printed lines are counted up to these
MaxLoops == 4
MaxLines == 3

\* the number of times the killswitch is thrown in a run
MaxToggles == 2

\* the minimum latch time of a timer [us]
MinLatch == 128

\* sensor readings: manifold pressure [kPa], intake air temperature [K]
MAPvals == {90}
IATvals == {298}


(***************************************************************************)
(* Arithmetic of the program's floats on the fixed-point integers.         *)
(***************************************************************************)
\* the value of a float that is not a number (0.0 / 0.0)
NaN == 0 - 2000000000

\* the value of a float that is infinite (x / 0.0 with x > 0)
Inf == 2000000000

\* the long that the conversion of a NaN yields: the conversion is undefined,
\* the value is any long; one negative, zero and one positive stand for them
NaNToLong == {0 - 1, 0, 1000}

\* (target - angle) / w as the long a timer's start receives: the quotient
\* of the exact difference, converted towards zero.  target is in
\* milli-degrees, angle an engine angle and w a speed.
AngleOverSpeed(target, angle, w) ==
    LET d == target - angle.milli
        n == (d % w) * 1000 - angle.micro
        floor == (d \div w) * 1000 + n \div w
    IN  IF floor >= 0 \/ n % w = 0 THEN floor ELSE floor + 1

\* w [1E-6 deg/us] * t [us], in milli-degrees
SpeedTimesTime(w, t) == w * (t \div 1000) + (w * (t % 1000)) \div 1000

\* the estimate below giving up, with a speed of 0, on an interval of a
\* second or more
calcSpeed_ZeroWhenSlow(CURR_TIME, PREV_TIME, CURR_ANG_SPEED) ==
    IF CURR_TIME - PREV_TIME >= 1000000
    THEN 0
    ELSE (7 * (360000000 \div 10)) \div (CURR_TIME - PREV_TIME)
            + (3 * CURR_ANG_SPEED) \div 10

\* calcSpeed(CURR_TIME, PREV_TIME, CURR_ANG_SPEED):
\*   0.7*(360.0f / (CURR_TIME - PREV_TIME)) + 0.3*(CURR_ANG_SPEED)
\* The times are unsigned: the divisor is their difference modulo 2^32, and
\* 360.0f over a divisor of zero is infinite, as is any sum with an infinite
\* term.
calcSpeed(CURR_TIME, PREV_TIME, CURR_ANG_SPEED) ==
    IF CURR_TIME = PREV_TIME \/ CURR_ANG_SPEED = Inf
    THEN Inf
    ELSE (7 * (360000000 \div 10)) \div (CURR_TIME - PREV_TIME)
            + (3 * CURR_ANG_SPEED) \div 10

\* ANGULAR_SPEED_US * 166667.0f, in thousandths of an rpm
Times166667(ANGULAR_SPEED_US) ==
    (ANGULAR_SPEED_US \div 1000) * 166667 + ((ANGULAR_SPEED_US % 1000) * 166667) \div 1000

\* convertToRPM(ANGULAR_SPEED_US): ANGULAR_SPEED_US * 166667.0f, in whole rpm
convertToRPM(ANGULAR_SPEED_US) == Times166667(ANGULAR_SPEED_US) \div 1000

\* convertFromRPM(RPM): RPM * 6E-6f
convertFromRPM(RPM) == RPM * 6

\* getCurrAngle(angular_speed, calib_time), read at time now = micros():
\* the engine angle, exact, as milli-degrees and a rest in micro-degrees
getCurrAngle(angular_speed, calib_time, now) ==
    LET angle == SpeedTimesTime(angular_speed, now - calib_time) + CALIB_ANGLE * 1000
    IN  [milli |-> IF angle >= 360 * 1000 THEN angle - 360 * 1000 ELSE angle,
         micro |-> (angular_speed * ((now - calib_time) % 1000)) % 1000]

\* injectorPulse(airVol, currMAP), reading the global IATval.
\* airVol is in 1E-9 m^3, the moles and the mass are in 1E-14 mol and g.
injectorPulse(airVol, currMAP, IAT) ==
    IF IAT = 0
    THEN NaN
    ELSE LET airMolar == ((((airVol * currMAP * 100) \div IAT) * 1000) \div R_CONSTANT)
             fuelMass == (airMolar * MOLAR_MASS_AIR) \div AIR_FUEL_RATIO
         IN  fuelMass \div (10 * MASS_FLOW_RATE)

\* fuelDuration [ps] * angularSpeed, in milli-degrees
DurationTimesSpeed(dur, w) == (dur * (w \div 1000)) \div 1000000

\* the fuelStartAngle that timeToStartFueling assigns
fuelStartAngleOf(dur, angularSpeed) ==
    IF dur = NaN
    THEN NaN
    ELSE FUEL_END_ANGLE * 1000 - DurationTimesSpeed(dur, angularSpeed)

\* timeToStartFueling(fuelDuration, angularSpeed, engineAngle), as the longs
\* that FUEL_START_TIMER.start can receive
timeToStartFueling(dur, angularSpeed, engineAngle) ==
    IF dur = NaN
    THEN NaNToLong
    ELSE {AngleOverSpeed(fuelStartAngleOf(dur, angularSpeed), engineAngle, angularSpeed)}

\* the sparkChargeAngle that timetoChargeSpark assigns
sparkChargeAngleOf(dischargeAngle, angularSpeed) ==
    dischargeAngle - (DWELL_TIME * angularSpeed) \div 1000

\* timetoChargeSpark(sparkDischargeAngle, currAngularSpeed, currEngineAngle),
\* as the long that SPARK_CHARGE_TIMER.start receives
timetoChargeSpark(dischargeAngle, angularSpeed, engineAngle) ==
    AngleOverSpeed(sparkChargeAngleOf(dischargeAngle, angularSpeed), engineAngle, angularSpeed)

\* fuelDuration as the longs that FUEL_STOP_TIMER.start can receive
DurationToLong(dur) == IF dur = NaN THEN NaNToLong ELSE {dur \div 1000000}

\* the sign of a long
Sign(n) == IF n < 0 THEN 0 - 1 ELSE IF n = 0 THEN 0 ELSE 1

\* the tuning tables (tuning.h) at the operating point of the running engine:
\* volumetric efficiency in hundredths, spark advance in degrees
VETableLookup(rpm, map) == 65
SATableLookup(rpm, map) == 25

(***************************************************************************)
(* The state.                                                              *)
(***************************************************************************)
VARIABLES
    pc,                   \* the statement of loop() that the main loop executes next
    sw,                   \* the case of switch(currState) being executed
    currState, killswitch, fuelCycle, revLimit, serialPrintCount,
    MAPval, IATval,
    currAngularSpeed, currRPM, calibAngleTime, lastCalibAngleTime,
    fuelDuration, sparkChargeAngle, sparkDischargeAngle, fuelStartAngle,
    currEngineAngle,
    micros,               \* the clock that micros() reads
    timer,                \* the four DueTimer timers
    SPARK_OUT, FUEL_OUT,  \* the output pins
    \* history of the run, read by the properties only
    drive,                \* the run of the engine
    edges,                \* the number of tachometer edges so far
    toggles,              \* the number of times the killswitch was thrown
    calPending,           \* a tachometer edge has not been serviced by CALIBRATION yet
    overRev,              \* CALIBRATION saw the upper rev limit reached and has not
                          \* seen the rpm below the lower rev limit since
    killedPending,        \* killswitch is false since an instant at which a timer
                          \* was running or a pin was HIGH
    killedCal,            \* CALIBRATION read killswitch false, and it is false since
    caseEdge,             \* the revolution in which the CRANKING or RUNNING case began
    caseFuel,             \* the case has started FUEL_START_TIMER
    armRevs,              \* the revolutions with a case that ran within the revolution
    fuelRevs,             \* those of them in which the case started FUEL_START_TIMER
    sparkRise,            \* the time at which SPARK_OUT went HIGH
    fuelRise,             \* the time at which FUEL_OUT went HIGH
    armedDuration,        \* fuelDuration when FUEL_START_TIMER was last started
    pulseDuration,        \* armedDuration when FUEL_OUT went HIGH
    readEdge,             \* the revolution of the first read of the arming computation
    fuelArm,              \* the last start of FUEL_START_TIMER by the loop: the
                          \* revolution, that of the reads, the sign of the delay
                          \* (a delay that is not a number counting as negative)
                          \* and whether the timer has fired since
    sparkArm,             \* the same of SPARK_CHARGE_TIMER
    \* setup()
    variant,              \* the setup() of the repository that runs
    setupPc,              \* the statement of setup() that executes next
    attached,             \* the interrupt handlers attached so far
    driven,               \* the output pins written so far
    \* the loop since the last tachometer edge, read by the properties only
    loops,                \* the passes of loop() entered with currState other than
                          \* READ_SENSORS since the last tachometer edge
    lines,                \* the diagnostic lines printed since the last edge
    linesTotal,           \* the diagnostic lines printed so far
    zeroEdges,            \* the edges at which tach_ISR set serialPrintCount to 0
    \* the functions of the program applied on their own
    call,                 \* the function and its arguments
    ret,                  \* whether it has returned, and what
    \* the firmware of src/src/ecu/spi_adc.cpp, which recalculates on a flag
    recalc, chargingSpark, fuelOpen, useFuel,
    lastTick, lastTickDelta, prevTick, prevTickDelta, predictedTickDelta,
    instantDPMS, sparkChargeTime, fuelStartTime,
    ticks,                \* the number of tachometer ticks so far
    skips,                \* the passes of its loop that did not start SPARK_TIMER
    \* loop() in DIAGNOSTIC_MODE
    commandLock,          \* static bool commandLock
    rx,                   \* the characters received on SERIAL_PORT and not read yet
    sent,                 \* the number of characters sent to SERIAL_PORT so far
    unlocked,             \* an 'l' was read since startup or since the last test
    unlocks,              \* the number of 'l' read so far
    tests                 \* the number of starts of a test timer so far

progVars == <<pc, sw, currState, killswitch, fuelCycle, revLimit, serialPrintCount,
              MAPval, IATval, currAngularSpeed, currRPM, calibAngleTime,
              lastCalibAngleTime, fuelDuration, sparkChargeAngle, sparkDischargeAngle,
              fuelStartAngle, currEngineAngle, micros, timer, SPARK_OUT, FUEL_OUT>>

caseObs == <<caseEdge, caseFuel, armRevs, fuelRevs, armedDuration>>

pulseObs == <<sparkRise, fuelRise, pulseDuration>>

\* what the arming steps of the loop leave for the properties
armObs == <<readEdge, fuelArm, sparkArm>>

\* the progress of setup()
bootVars == <<variant, setupPc, attached, driven>>

\* what the passes of the loop leave for the properties
loopObs == <<loops, lines, linesTotal, zeroEdges>>

\* a function applied on its own
calcVars == <<call, ret>>

\* the globals of src/src/ecu/spi_adc.cpp that src/src/ecu/ecu.ino has not
recalcVars == <<recalc, chargingSpark, fuelOpen, useFuel, lastTick, lastTickDelta,
                prevTick, prevTickDelta, predictedTickDelta, instantDPMS,
                sparkChargeTime, fuelStartTime, ticks, skips>>

\* loop() in DIAGNOSTIC_MODE
diagVars == <<commandLock, rx, sent, unlocked, unlocks, tests>>

\* the firmwares that do not run
otherVars == <<recalcVars, diagVars>>

\* the firmware of src/src/ecu/spi_adc.cpp is not the one that runs
RecalcIdle ==
    /\ recalc = FALSE
    /\ chargingSpark = FALSE
    /\ fuelOpen = FALSE
    /\ useFuel = FALSE
    /\ lastTick = 0
    /\ lastTickDelta = 0
    /\ prevTick = 0
    /\ prevTickDelta = 0
    /\ predictedTickDelta = 0
    /\ instantDPMS = 0
    /\ sparkChargeTime = 0
    /\ fuelStartTime = 0
    /\ ticks = 0
    /\ skips = 0

\* loop() is not the one of DIAGNOSTIC_MODE
DiagIdle ==
    /\ commandLock = FALSE
    /\ rx = << >>
    /\ sent = 0
    /\ unlocked = FALSE
    /\ unlocks = 0
    /\ tests = 0

\* no function is applied on its own in the runs of the firmware
NoCall == [fn |-> "none", args |-> <<>>]
NoReturn == [done |-> FALSE, val |-> 0]

histVars == <<drive, edges, toggles, calPending, overRev, killedPending, killedCal,
              caseObs, pulseObs, armObs, bootVars, loopObs, calcVars, otherVars>>

vars == <<progVars, histVars>>

\* what only tach_ISR writes
tachVars == <<currAngularSpeed, calibAngleTime, lastCalibAngleTime, fuelCycle,
              serialPrintCount, edges>>

\* what only the arming steps of CRANKING and RUNNING write
schedVars == <<fuelDuration, sparkChargeAngle, sparkDischargeAngle, fuelStartAngle,
               currEngineAngle>>

sensorVars == <<MAPval, IATval>>

pinVars == <<SPARK_OUT, FUEL_OUT>>

(***************************************************************************)
(* The timers (DueTimer).  start(us) sets the period when us > 0, keeps    *)
(* the period the timer had otherwise (one second if it never had one),    *)
(* and starts the counter from zero; the timer then fires every period     *)
(* until stop().                                                           *)
(***************************************************************************)
TimerIdle == [on |-> FALSE, due |-> 0, period |-> 1000000]

TimerStart(t, us, now) ==
    LET p == IF us > 0 THEN us ELSE t.period
    IN  [on |-> TRUE, due |-> now + p, period |-> p]

TimerStop(t) == [t EXCEPT !.on = FALSE, !.due = 0]

\* the timer's interrupt is raised
Expired(name) == timer[name].on /\ timer[name].due = micros

(***************************************************************************)
(* setup().  The repository holds three of them: the one of                *)
(* src/src/ecu/ecu.ino, its copy in the ecu.c part of                      *)
(* src/ecu/src/main/ecu.ino, and the one of the ecu2 part of that file,    *)
(* which writes neither output pin and never assigns revLimit.  setup() is *)
(* the sequence of its statements; an interrupt handler runs from the      *)
(* statement that attaches it.                                             *)
(***************************************************************************)
ECU == "ecu"
ECU_C == "ecu.c"
ECU2 == "ecu2"
Variants == {ECU, ECU_C, ECU2}

ISRs == {"killswitch_ISR", "tach_ISR", "chargeSpark_ISR", "dischargeSpark_ISR",
         "startFuel_ISR", "stopFuel_ISR"}

OutputPins == {"SPARK_OUT", "FUEL_OUT"}

setup(v) ==
    <<  <<"pinMode", "">> >>
    \o (IF v = ECU2 THEN << >>
        ELSE << <<"digitalWrite", "SPARK_OUT">>, <<"digitalWrite", "FUEL_OUT">> >>)
    \o << <<"variables", "">>,
          <<"attachInterrupt", "killswitch_ISR">>,
          <<"attachInterrupt", "tach_ISR">>,
          <<"attachInterrupt", "chargeSpark_ISR">>,
          <<"attachInterrupt", "dischargeSpark_ISR">>,
          <<"attachInterrupt", "startFuel_ISR">>,
          <<"attachInterrupt", "stopFuel_ISR">>,
          <<"begin", "Serial">>,
          <<"serialPrintCount", "">>,
          <<"begin", "SPI">>,
          <<"killswitch", "">>,
          <<"fuelCycle", "">> >>
    \o (IF v = ECU2 THEN << >> ELSE << <<"revLimit", "">> >>)
    \o << <<"currState", "">> >>

\* setup() has returned
SetupDone == setupPc > Len(setup(variant))

\* setup() is at a statement of the kind
SetupAt(kind) == ~SetupDone /\ setup(variant)[setupPc][1] = kind

\* what setup() never writes
idleVars == <<pc, sw, currRPM, micros, timer, schedVars, sensorVars, variant>>

\* the history that setup() leaves alone
envObs == <<drive, edges, toggles, calPending, overRev, killedPending, killedCal,
            caseObs, pulseObs, armObs, loopObs, calcVars, otherVars>>

\* the state once setup() of src/src/ecu/ecu.ino has returned, no tachometer
\* edge and no throw of the killswitch having come meanwhile
Init ==
    /\ variant = ECU
    /\ setupPc = Len(setup(ECU)) + 1
    /\ attached = ISRs
    /\ driven = OutputPins
    /\ readEdge = 0
    /\ fuelArm = [edge |-> 0, reads |-> 0, delay |-> 0, fired |-> FALSE]
    /\ sparkArm = [edge |-> 0, reads |-> 0, delay |-> 0, fired |-> FALSE]
    /\ pc = "switch"
    /\ sw = READ_SENSORS
    /\ currState = READ_SENSORS
    /\ killswitch \in BOOLEAN
    /\ fuelCycle = FALSE
    /\ revLimit = FALSE
    /\ serialPrintCount = 1
    /\ MAPval = 0
    /\ IATval = 0
    /\ currAngularSpeed = 0
    /\ currRPM = 0
    /\ calibAngleTime = 0
    /\ lastCalibAngleTime = 0
    /\ fuelDuration = 0
    /\ sparkChargeAngle = 0
    /\ sparkDischargeAngle = 0
    /\ fuelStartAngle = 0
    /\ currEngineAngle = [milli |-> 0, micro |-> 0]
    /\ micros = 0
    /\ timer = [t \in Timers |-> TimerIdle]
    /\ SPARK_OUT = LOW
    /\ FUEL_OUT = LOW
    /\ drive \in Drives
    /\ loops = 0
    /\ lines = 0
    /\ linesTotal = 0
    /\ zeroEdges = 0
    /\ call = NoCall
    /\ ret = NoReturn
    /\ RecalcIdle
    /\ DiagIdle
    /\ edges = 0
    /\ toggles = 0
    /\ calPending = FALSE
    /\ overRev = FALSE
    /\ killedPending = FALSE
    /\ killedCal = FALSE
    /\ caseEdge = 0
    /\ caseFuel = FALSE
    /\ armRevs = {}
    /\ fuelRevs = {}
    /\ sparkRise = 0
    /\ fuelRise = 0
    /\ armedDuration = 0
    /\ pulseDuration = 0

(***************************************************************************)
(* Interrupt service routines.                                             *)
(***************************************************************************)
\* a timer is running or a pin is HIGH
PulsePending == (\E t \in Timers : timer[t].on) \/ SPARK_OUT = HIGH \/ FUEL_OUT = HIGH

\* the next tachometer edge of the run is due
EdgeDue == edges < Len(drive) /\ micros - calibAngleTime = drive[edges + 1]

tach_ISR ==
    /\ "tach_ISR" \in attached
    /\ EdgeDue
    /\ lastCalibAngleTime' = calibAngleTime
    /\ calibAngleTime' = micros
    /\ currAngularSpeed' = calcSpeed(micros, calibAngleTime, currAngularSpeed)
    /\ fuelCycle' = ~fuelCycle
    /\ serialPrintCount' = IF serialPrintCount >= 9 THEN 0 ELSE serialPrintCount + 1
    /\ currState' = CALIBRATION
    /\ edges' = edges + 1
    /\ calPending' = TRUE
    /\ loops' = 0
    /\ lines' = 0
    /\ zeroEdges' = IF serialPrintCount' = 0 THEN zeroEdges + 1 ELSE zeroEdges
    /\ UNCHANGED <<pc, sw, killswitch, revLimit, currRPM, micros, timer, linesTotal>>
    /\ UNCHANGED <<schedVars, sensorVars, pinVars, drive, otherVars, calcVars, bootVars, armObs, toggles, overRev>>
    /\ UNCHANGED <<killedPending, killedCal, caseObs, pulseObs>>

killswitch_ISR ==
    /\ "killswitch_ISR" \in attached
    /\ toggles < MaxToggles
    /\ toggles' = toggles + 1
    /\ \E level \in BOOLEAN :
          /\ level # killswitch
          /\ killswitch' = level
    /\ UNCHANGED <<pc, sw, currState, revLimit, currRPM, micros, timer>>
    /\ UNCHANGED <<tachVars, schedVars, sensorVars, pinVars, drive, otherVars, calcVars, loopObs, bootVars, armObs, calPending, overRev>>
    /\ killedPending' = (~killswitch' /\ (PulsePending \/ killedPending))
    /\ killedCal' = (killedCal /\ ~killswitch')
    /\ UNCHANGED <<caseObs, pulseObs>>

\* the interrupt below without SPARK_CHARGE_TIMER.stop(): the timer runs on
\* and fires again a period later
chargeSpark_ISR_NoStop ==
    /\ "chargeSpark_ISR" \in attached
    /\ Expired(SPARK_CHARGE_TIMER)
    /\ SPARK_OUT' = HIGH
    /\ timer' = [timer EXCEPT
                   ![SPARK_CHARGE_TIMER] = [@ EXCEPT !.due = micros + timer[SPARK_CHARGE_TIMER].period],
                   ![SPARK_DISCHARGE_TIMER] = TimerStart(@, DWELL_TIME, micros)]
    /\ UNCHANGED <<pc, sw, currState, killswitch, revLimit, currRPM, micros, FUEL_OUT>>
    /\ UNCHANGED <<tachVars, schedVars, sensorVars, drive, otherVars, calcVars, loopObs, bootVars, toggles, calPending, overRev>>
    /\ sparkRise' = IF SPARK_OUT = LOW THEN micros ELSE sparkRise
    /\ UNCHANGED <<killedPending, killedCal, caseObs, fuelRise, pulseDuration>>
    /\ sparkArm' = [sparkArm EXCEPT !.fired = TRUE]
    /\ UNCHANGED <<readEdge, fuelArm>>

chargeSpark_ISR ==
    /\ "chargeSpark_ISR" \in attached
    /\ Expired(SPARK_CHARGE_TIMER)
    /\ SPARK_OUT' = HIGH
    /\ timer' = [timer EXCEPT
                   ![SPARK_CHARGE_TIMER] = TimerStop(@),
                   ![SPARK_DISCHARGE_TIMER] = TimerStart(@, DWELL_TIME, micros)]
    /\ UNCHANGED <<pc, sw, currState, killswitch, revLimit, currRPM, micros, FUEL_OUT>>
    /\ UNCHANGED <<tachVars, schedVars, sensorVars, drive, otherVars, calcVars, loopObs, bootVars, toggles, calPending, overRev>>
    /\ sparkRise' = IF SPARK_OUT = LOW THEN micros ELSE sparkRise
    /\ UNCHANGED <<killedPending, killedCal, caseObs, fuelRise, pulseDuration>>
    /\ sparkArm' = [sparkArm EXCEPT !.fired = TRUE]
    /\ UNCHANGED <<readEdge, fuelArm>>

\* the interrupt below sending the state machine to READ_SENSORS
dischargeSpark_ISR_ToReadSensors ==
    /\ "dischargeSpark_ISR" \in attached
    /\ Expired(SPARK_DISCHARGE_TIMER)
    /\ SPARK_OUT' = LOW
    /\ currState' = READ_SENSORS
    /\ timer' = [timer EXCEPT ![SPARK_DISCHARGE_TIMER] = TimerStop(@)]
    /\ UNCHANGED <<pc, sw, killswitch, revLimit, currRPM, micros, FUEL_OUT>>
    /\ UNCHANGED <<tachVars, schedVars, sensorVars, drive, otherVars, calcVars, loopObs, bootVars, armObs, toggles, calPending, overRev>>
    /\ sparkRise' = 0
    /\ UNCHANGED <<killedPending, killedCal, caseObs, fuelRise, pulseDuration>>

dischargeSpark_ISR ==
    /\ "dischargeSpark_ISR" \in attached
    /\ Expired(SPARK_DISCHARGE_TIMER)
    /\ SPARK_OUT' = LOW
    /\ timer' = [timer EXCEPT ![SPARK_DISCHARGE_TIMER] = TimerStop(@)]
    /\ UNCHANGED <<pc, sw, currState, killswitch, revLimit, currRPM, micros, FUEL_OUT>>
    /\ UNCHANGED <<tachVars, schedVars, sensorVars, drive, otherVars, calcVars, loopObs, bootVars, armObs, toggles, calPending, overRev>>
    /\ sparkRise' = 0
    /\ UNCHANGED <<killedPending, killedCal, caseObs, fuelRise, pulseDuration>>

startFuel_ISR ==
    /\ "startFuel_ISR" \in attached
    /\ Expired(FUEL_START_TIMER)
    /\ FUEL_OUT' = HIGH
    /\ \E us \in DurationToLong(fuelDuration) :
          timer' = [timer EXCEPT
                      ![FUEL_START_TIMER] = TimerStop(@),
                      ![FUEL_STOP_TIMER] = TimerStart(@, us, micros)]
    /\ UNCHANGED <<pc, sw, currState, killswitch, revLimit, currRPM, micros, SPARK_OUT>>
    /\ UNCHANGED <<tachVars, schedVars, sensorVars, drive, otherVars, calcVars, loopObs, bootVars, toggles, calPending, overRev>>
    /\ fuelRise' = IF FUEL_OUT = LOW THEN micros ELSE fuelRise
    /\ pulseDuration' = IF FUEL_OUT = LOW THEN armedDuration ELSE pulseDuration
    /\ UNCHANGED <<killedPending, killedCal, caseObs, sparkRise>>
    /\ fuelArm' = [fuelArm EXCEPT !.fired = TRUE]
    /\ UNCHANGED <<readEdge, sparkArm>>

\* the interrupt below leaving the pin as it is
stopFuel_ISR_PinStays ==
    /\ "stopFuel_ISR" \in attached
    /\ Expired(FUEL_STOP_TIMER)
    /\ FUEL_OUT' = FUEL_OUT
    /\ timer' = [timer EXCEPT ![FUEL_STOP_TIMER] = TimerStop(@)]
    /\ UNCHANGED <<pc, sw, currState, killswitch, revLimit, currRPM, micros, SPARK_OUT>>
    /\ UNCHANGED <<tachVars, schedVars, sensorVars, drive, otherVars, calcVars, loopObs, bootVars, armObs, toggles, calPending, overRev>>
    /\ fuelRise' = 0
    /\ pulseDuration' = 0
    /\ UNCHANGED <<killedPending, killedCal, caseObs, sparkRise>>

stopFuel_ISR ==
    /\ "stopFuel_ISR" \in attached
    /\ Expired(FUEL_STOP_TIMER)
    /\ FUEL_OUT' = LOW
    /\ timer' = [timer EXCEPT ![FUEL_STOP_TIMER] = TimerStop(@)]
    /\ UNCHANGED <<pc, sw, currState, killswitch, revLimit, currRPM, micros, SPARK_OUT>>
    /\ UNCHANGED <<tachVars, schedVars, sensorVars, drive, otherVars, calcVars, loopObs, bootVars, armObs, toggles, calPending, overRev>>
    /\ fuelRise' = 0
    /\ pulseDuration' = 0
    /\ UNCHANGED <<killedPending, killedCal, caseObs, sparkRise>>

(***************************************************************************)
(* loop(): switch(currState), one action per step of a case.               *)
(***************************************************************************)
\* currState = (serialPrintCount == 0 ? SERIAL_OUT : READ_SENSORS)
\* the assignment below with SERIAL_OUT whatever the count
PrintOrRead_Always(count) == SERIAL_OUT

PrintOrRead(count) == IF count = 0 THEN SERIAL_OUT ELSE READ_SENSORS

\* the partition without the hysteresis: the limiter is left on any pass
CalibrationSelect_NoHysteresis(limit, rpm) ==
    IF rpm >= UPPER_REV_LIMIT
    THEN [state |-> REV_LIMITER, revLimit |-> FALSE]
    ELSE IF rpm >= CRANKING_SPEED
         THEN [state |-> RUNNING, revLimit |-> FALSE]
         ELSE IF rpm >= ENGAGE_SPEED
              THEN [state |-> CRANKING, revLimit |-> FALSE]
              ELSE [state |-> READ_SENSORS, revLimit |-> FALSE]

\* the partition with the limits taken on the other side
CalibrationSelect_LimitsBelow(limit, rpm) ==
    IF limit
    THEN IF rpm < LOWER_REV_LIMIT
         THEN [state |-> RUNNING, revLimit |-> FALSE]
         ELSE [state |-> READ_SENSORS, revLimit |-> limit]
    ELSE IF rpm <= ENGAGE_SPEED
         THEN [state |-> READ_SENSORS, revLimit |-> limit]
         ELSE IF rpm <= CRANKING_SPEED
              THEN [state |-> CRANKING, revLimit |-> limit]
              ELSE IF rpm <= UPPER_REV_LIMIT
                   THEN [state |-> RUNNING, revLimit |-> limit]
                   ELSE [state |-> REV_LIMITER, revLimit |-> limit]

\* case CALIBRATION, case true of switch(killswitch): the state and the
\* revLimit that the branches on revLimit and currRPM select
CalibrationSelect(limit, rpm) ==
    IF limit
    THEN IF rpm < LOWER_REV_LIMIT
         THEN [state |-> RUNNING, revLimit |-> FALSE]
         ELSE [state |-> READ_SENSORS, revLimit |-> limit]
    ELSE IF rpm >= UPPER_REV_LIMIT
         THEN [state |-> REV_LIMITER, revLimit |-> limit]
         ELSE IF rpm < UPPER_REV_LIMIT /\ rpm >= CRANKING_SPEED
              THEN [state |-> RUNNING, revLimit |-> limit]
              ELSE IF rpm < CRANKING_SPEED /\ rpm >= ENGAGE_SPEED
                   THEN [state |-> CRANKING, revLimit |-> limit]
                   ELSE [state |-> READ_SENSORS, revLimit |-> limit]

\* switch(currState): the loop reads currState once and enters the case
loop_switch ==
    /\ pc = "switch"
    /\ sw' = currState
    /\ pc' = IF currState \in {CRANKING, RUNNING} THEN "ARM_state" ELSE currState
    /\ calPending' = IF currState = CALIBRATION THEN FALSE ELSE calPending
    /\ loops' = IF currState # READ_SENSORS /\ loops < MaxLoops THEN loops + 1 ELSE loops
    /\ UNCHANGED <<currState, killswitch, revLimit, currRPM, micros, timer>>
    /\ UNCHANGED <<lines, linesTotal, zeroEdges>>
    /\ UNCHANGED <<tachVars, schedVars, sensorVars, pinVars, drive, otherVars, calcVars, bootVars, armObs, toggles, overRev>>
    /\ caseEdge' = IF currState \in {CRANKING, RUNNING} THEN edges ELSE caseEdge
    /\ caseFuel' = (caseFuel /\ currState \notin {CRANKING, RUNNING})
    /\ UNCHANGED <<killedPending, killedCal, armRevs, fuelRevs, armedDuration, pulseObs>>

loop_READ_SENSORS ==
    /\ pc = READ_SENSORS
    /\ currState' = READ_SENSORS
    /\ MAPval' \in MAPvals
    /\ IATval' \in IATvals
    /\ pc' = "switch"
    /\ UNCHANGED <<sw, killswitch, revLimit, currRPM, micros, timer>>
    /\ UNCHANGED <<tachVars, schedVars, pinVars, drive, otherVars, calcVars, loopObs, bootVars, armObs, toggles, calPending, overRev>>
    /\ UNCHANGED <<killedPending, killedCal, caseObs, pulseObs>>

\* the step below with the killswitch ignored: the engine runs when killed
loop_CALIBRATION_killswitch_Ignored ==
    /\ pc = CALIBRATION
    /\ pc' = "CAL_rpm"
    /\ UNCHANGED <<sw, currState, killswitch, revLimit, currRPM, micros, timer>>
    /\ UNCHANGED <<tachVars, schedVars, sensorVars, pinVars, drive, otherVars, calcVars, loopObs, bootVars, armObs, toggles, calPending, overRev>>
    /\ killedCal' = (killedCal \/ ~killswitch)
    /\ UNCHANGED <<killedPending, caseObs, pulseObs>>

\* case CALIBRATION: switch(killswitch)
loop_CALIBRATION_killswitch ==
    /\ pc = CALIBRATION
    /\ pc' = IF killswitch THEN "CAL_rpm" ELSE "CAL_false"
    /\ UNCHANGED <<sw, currState, killswitch, revLimit, currRPM, micros, timer>>
    /\ UNCHANGED <<tachVars, schedVars, sensorVars, pinVars, drive, otherVars, calcVars, loopObs, bootVars, armObs, toggles, calPending, overRev>>
    /\ killedCal' = (killedCal \/ ~killswitch)
    /\ UNCHANGED <<killedPending, caseObs, pulseObs>>

\* case true: currRPM = convertToRPM(currAngularSpeed)
loop_CALIBRATION_rpm ==
    /\ pc = "CAL_rpm"
    /\ currRPM' = convertToRPM(currAngularSpeed)
    /\ overRev' = IF currRPM' >= UPPER_REV_LIMIT THEN TRUE
                  ELSE IF currRPM' < LOWER_REV_LIMIT THEN FALSE ELSE overRev
    /\ pc' = "CAL_select"
    /\ UNCHANGED <<sw, currState, killswitch, revLimit, micros, timer>>
    /\ UNCHANGED <<tachVars, schedVars, sensorVars, pinVars, drive, otherVars, calcVars, loopObs, bootVars, armObs, toggles, calPending>>
    /\ UNCHANGED <<killedPending, killedCal, caseObs, pulseObs>>

\* case true: the branches on revLimit and currRPM
loop_CALIBRATION_select ==
    /\ pc = "CAL_select"
    /\ currState' = CalibrationSelect(revLimit, currRPM).state
    /\ revLimit' = CalibrationSelect(revLimit, currRPM).revLimit
    /\ pc' = "switch"
    /\ UNCHANGED <<sw, killswitch, currRPM, micros, timer>>
    /\ UNCHANGED <<tachVars, schedVars, sensorVars, pinVars, drive, otherVars, calcVars, loopObs, bootVars, armObs, toggles, calPending, overRev>>
    /\ UNCHANGED <<killedPending, killedCal, caseObs, pulseObs>>

\* case false: currState = READ_SENSORS
loop_CALIBRATION_false ==
    /\ pc = "CAL_false"
    /\ currState' = READ_SENSORS
    /\ pc' = "switch"
    /\ UNCHANGED <<sw, killswitch, revLimit, currRPM, micros, timer>>
    /\ UNCHANGED <<tachVars, schedVars, sensorVars, pinVars, drive, otherVars, calcVars, loopObs, bootVars, armObs, toggles, calPending, overRev>>
    /\ UNCHANGED <<killedPending, killedCal, caseObs, pulseObs>>

\* cases CRANKING and RUNNING: currState = (serialPrintCount == 0 ? ...)
loop_ARM_state ==
    /\ pc = "ARM_state"
    /\ currState' = PrintOrRead(serialPrintCount)
    /\ pc' = "ARM_fuelCycle"
    /\ UNCHANGED <<sw, killswitch, revLimit, currRPM, micros, timer>>
    /\ UNCHANGED <<tachVars, schedVars, sensorVars, pinVars, drive, otherVars, calcVars, loopObs, bootVars, armObs, toggles, calPending, overRev>>
    /\ UNCHANGED <<killedPending, killedCal, caseObs, pulseObs>>

\* the step below with fuelCycle ignored: every revolution is fuelled
loop_ARM_fuelCycle_Always ==
    /\ pc = "ARM_fuelCycle"
    /\ pc' = "ARM_fuelDuration"
    /\ UNCHANGED <<sw, currState, killswitch, revLimit, currRPM, micros, timer>>
    /\ UNCHANGED <<tachVars, schedVars, sensorVars, pinVars, drive, otherVars, calcVars, loopObs, bootVars, armObs, toggles, calPending, overRev>>
    /\ UNCHANGED <<killedPending, killedCal, caseObs, pulseObs>>

\* if(fuelCycle)
loop_ARM_fuelCycle ==
    /\ pc = "ARM_fuelCycle"
    /\ pc' = IF fuelCycle THEN "ARM_fuelDuration" ELSE "ARM_sparkAngle"
    /\ UNCHANGED <<sw, currState, killswitch, revLimit, currRPM, micros, timer>>
    /\ UNCHANGED <<tachVars, schedVars, sensorVars, pinVars, drive, otherVars, calcVars, loopObs, bootVars, armObs, toggles, calPending, overRev>>
    /\ UNCHANGED <<killedPending, killedCal, caseObs, pulseObs>>

\* airVolume = (CRANK_VOL_EFF or the table's volEff) * ENGINE_DISPLACEMENT
airVolumeOf(case, angularSpeed, map) ==
    IF case = CRANKING
    THEN CRANK_VOL_EFF * ENGINE_DISPLACEMENT
    ELSE VETableLookup(convertToRPM(angularSpeed), map) * ENGINE_DISPLACEMENT

\* fuelDuration = injectorPulse(airVolume, MAPval)
loop_ARM_fuelDuration ==
    /\ pc = "ARM_fuelDuration"
    /\ fuelDuration' = injectorPulse(airVolumeOf(sw, currAngularSpeed, MAPval), MAPval, IATval)
    /\ pc' = "ARM_fuelAngle"
    /\ UNCHANGED <<sw, currState, killswitch, revLimit, currRPM, micros, timer>>
    /\ UNCHANGED <<sparkChargeAngle, sparkDischargeAngle, fuelStartAngle, currEngineAngle>>
    /\ UNCHANGED <<tachVars, sensorVars, pinVars, drive, otherVars, calcVars, loopObs, bootVars, armObs, toggles, calPending, overRev>>
    /\ UNCHANGED <<killedPending, killedCal, caseObs, pulseObs>>

\* currEngineAngle = getCurrAngle(currAngularSpeed, calibAngleTime)
loop_ARM_fuelAngle ==
    /\ pc = "ARM_fuelAngle"
    /\ currEngineAngle' = getCurrAngle(currAngularSpeed, calibAngleTime, micros)
    /\ pc' = "ARM_fuelStart"
    /\ UNCHANGED <<sw, currState, killswitch, revLimit, currRPM, micros, timer>>
    /\ UNCHANGED <<fuelDuration, sparkChargeAngle, sparkDischargeAngle, fuelStartAngle>>
    /\ UNCHANGED <<tachVars, sensorVars, pinVars, drive, otherVars, calcVars, loopObs, bootVars, toggles, calPending, overRev>>
    /\ UNCHANGED <<killedPending, killedCal, caseObs, pulseObs>>
    /\ readEdge' = edges
    /\ UNCHANGED <<fuelArm, sparkArm>>

\* FUEL_START_TIMER.start( timeToStartFueling(fuelDuration, currAngularSpeed, currEngineAngle) )
loop_ARM_fuelStart ==
    /\ pc = "ARM_fuelStart"
    /\ fuelStartAngle' = fuelStartAngleOf(fuelDuration, currAngularSpeed)
    /\ \E us \in timeToStartFueling(fuelDuration, currAngularSpeed, currEngineAngle) :
          /\ timer' = [timer EXCEPT ![FUEL_START_TIMER] = TimerStart(@, us, micros)]
          /\ fuelArm' = [edge |-> edges, reads |-> readEdge,
                         delay |-> IF fuelDuration = NaN THEN 0 - 1 ELSE Sign(us),
                         fired |-> FALSE]
    /\ pc' = "ARM_sparkAngle"
    /\ UNCHANGED <<sw, currState, killswitch, revLimit, currRPM, micros>>
    /\ UNCHANGED <<fuelDuration, sparkChargeAngle, sparkDischargeAngle, currEngineAngle>>
    /\ UNCHANGED <<tachVars, sensorVars, pinVars, drive, otherVars, calcVars, loopObs, bootVars, toggles, calPending, overRev>>
    /\ caseFuel' = TRUE
    /\ armedDuration' = fuelDuration
    /\ UNCHANGED <<killedPending, killedCal, caseEdge, armRevs, fuelRevs, pulseObs>>
    /\ UNCHANGED <<readEdge, sparkArm>>

\* sparkDischargeAngle = TDC - (CRANK_SPARK_ADV or the table's spark advance)
sparkDischargeAngleOf(case, angularSpeed, map) ==
    IF case = CRANKING
    THEN (TDC - CRANK_SPARK_ADV) * 1000
    ELSE (TDC - SATableLookup(convertToRPM(angularSpeed), map)) * 1000

\* sparkDischargeAngle = ...; currEngineAngle = getCurrAngle(...)
loop_ARM_sparkAngle ==
    /\ pc = "ARM_sparkAngle"
    /\ sparkDischargeAngle' = sparkDischargeAngleOf(sw, currAngularSpeed, MAPval)
    /\ currEngineAngle' = getCurrAngle(currAngularSpeed, calibAngleTime, micros)
    /\ pc' = "ARM_sparkStart"
    /\ UNCHANGED <<sw, currState, killswitch, revLimit, currRPM, micros, timer>>
    /\ UNCHANGED <<fuelDuration, sparkChargeAngle, fuelStartAngle>>
    /\ UNCHANGED <<tachVars, sensorVars, pinVars, drive, otherVars, calcVars, loopObs, bootVars, toggles, calPending, overRev>>
    /\ UNCHANGED <<killedPending, killedCal, caseObs, pulseObs>>
    /\ readEdge' = edges
    /\ UNCHANGED <<fuelArm, sparkArm>>

\* the step below starting the discharge timer instead of the charge timer
loop_ARM_sparkStart_WrongTimer ==
    /\ pc = "ARM_sparkStart"
    /\ sparkChargeAngle' = sparkChargeAngleOf(sparkDischargeAngle, currAngularSpeed)
    /\ timer' = [timer EXCEPT ![SPARK_DISCHARGE_TIMER] =
                    TimerStart(@, timetoChargeSpark(sparkDischargeAngle, currAngularSpeed,
                                                    currEngineAngle), micros)]
    /\ pc' = "switch"
    /\ UNCHANGED <<sw, currState, killswitch, revLimit, currRPM, micros>>
    /\ UNCHANGED <<fuelDuration, sparkDischargeAngle, fuelStartAngle, currEngineAngle>>
    /\ UNCHANGED <<tachVars, sensorVars, pinVars, drive, otherVars, calcVars, loopObs, bootVars, toggles, calPending, overRev>>
    /\ armRevs' = IF caseEdge = edges THEN armRevs \cup {edges} ELSE armRevs
    /\ fuelRevs' = IF caseEdge = edges /\ caseFuel THEN fuelRevs \cup {edges} ELSE fuelRevs
    /\ UNCHANGED <<killedPending, killedCal, caseEdge, caseFuel, armedDuration, pulseObs>>
    /\ sparkArm' = [edge |-> edges, reads |-> readEdge,
                     delay |-> Sign(timetoChargeSpark(sparkDischargeAngle,
                                                      currAngularSpeed, currEngineAngle)),
                     fired |-> FALSE]
    /\ UNCHANGED <<readEdge, fuelArm>>

\* SPARK_CHARGE_TIMER.start( timetoChargeSpark(sparkDischargeAngle, currAngularSpeed, currEngineAngle) )
loop_ARM_sparkStart ==
    /\ pc = "ARM_sparkStart"
    /\ sparkChargeAngle' = sparkChargeAngleOf(sparkDischargeAngle, currAngularSpeed)
    /\ timer' = [timer EXCEPT ![SPARK_CHARGE_TIMER] =
                    TimerStart(@, timetoChargeSpark(sparkDischargeAngle, currAngularSpeed,
                                                    currEngineAngle), micros)]
    /\ pc' = "switch"
    /\ UNCHANGED <<sw, currState, killswitch, revLimit, currRPM, micros>>
    /\ UNCHANGED <<fuelDuration, sparkDischargeAngle, fuelStartAngle, currEngineAngle>>
    /\ UNCHANGED <<tachVars, sensorVars, pinVars, drive, otherVars, calcVars, loopObs, bootVars, toggles, calPending, overRev>>
    /\ armRevs' = IF caseEdge = edges THEN armRevs \cup {edges} ELSE armRevs
    /\ fuelRevs' = IF caseEdge = edges /\ caseFuel THEN fuelRevs \cup {edges} ELSE fuelRevs
    /\ UNCHANGED <<killedPending, killedCal, caseEdge, caseFuel, armedDuration, pulseObs>>
    /\ sparkArm' = [edge |-> edges, reads |-> readEdge,
                     delay |-> Sign(timetoChargeSpark(sparkDischargeAngle,
                                                      currAngularSpeed, currEngineAngle)),
                     fired |-> FALSE]
    /\ UNCHANGED <<readEdge, fuelArm>>

loop_REV_LIMITER ==
    /\ pc = REV_LIMITER
    /\ currState' = PrintOrRead(serialPrintCount)
    /\ revLimit' = TRUE
    /\ pc' = "switch"
    /\ UNCHANGED <<sw, killswitch, currRPM, micros, timer>>
    /\ UNCHANGED <<tachVars, schedVars, sensorVars, pinVars, drive, otherVars, calcVars, loopObs, bootVars, armObs, toggles, calPending, overRev>>
    /\ UNCHANGED <<killedPending, killedCal, caseObs, pulseObs>>

\* the case below without its assignment of currState: it is entered again
loop_SERIAL_OUT_Stays ==
    /\ pc = SERIAL_OUT
    /\ currState' = currState
    /\ lines' = IF lines < MaxLines THEN lines + 1 ELSE lines
    /\ linesTotal' = IF linesTotal < MaxLines THEN linesTotal + 1 ELSE linesTotal
    /\ pc' = "switch"
    /\ UNCHANGED <<sw, killswitch, revLimit, currRPM, micros, timer, loops, zeroEdges>>
    /\ UNCHANGED <<tachVars, schedVars, sensorVars, pinVars, drive, otherVars, calcVars, bootVars, armObs, toggles, calPending, overRev>>
    /\ UNCHANGED <<killedPending, killedCal, caseObs, pulseObs>>

\* case SERIAL_OUT: currState = READ_SENSORS, then the heading and the line
\* of the values are printed
loop_SERIAL_OUT ==
    /\ pc = SERIAL_OUT
    /\ currState' = READ_SENSORS
    /\ lines' = IF lines < MaxLines THEN lines + 1 ELSE lines
    /\ linesTotal' = IF linesTotal < MaxLines THEN linesTotal + 1 ELSE linesTotal
    /\ pc' = "switch"
    /\ UNCHANGED <<sw, killswitch, revLimit, currRPM, micros, timer, loops, zeroEdges>>
    /\ UNCHANGED <<tachVars, schedVars, sensorVars, pinVars, drive, otherVars, calcVars, bootVars, armObs, toggles, calPending, overRev>>
    /\ UNCHANGED <<killedPending, killedCal, caseObs, pulseObs>>

(***************************************************************************)
(* Time passes between two passes of the loop, up to the next instant the  *)
(* model looks at: the next tachometer edge of the run, a late pass of the *)
(* loop or the expiry of a running timer.  The interrupts of an instant    *)
(* are served before time passes; within an instant the steps of the loop  *)
(* and the interrupts interleave freely.                                   *)
(***************************************************************************)
Armed == {t \in Timers : timer[t].on}

Instants ==
    {calibAngleTime + p : p \in LoopDelays}
        \cup (IF edges < Len(drive) THEN {calibAngleTime + drive[edges + 1]} ELSE {})
        \cup {timer[t].due : t \in Armed}

Advance ==
    /\ pc = "switch"
    /\ ~EdgeDue
    /\ \A t \in Armed : ~Expired(t)
    /\ \E next \in Instants :
          /\ next > micros
          /\ \A other \in Instants : other > micros => next <= other
          /\ micros' = next
    /\ UNCHANGED <<pc, sw, currState, killswitch, revLimit, currRPM, timer>>
    /\ UNCHANGED <<tachVars, schedVars, sensorVars, pinVars, drive, otherVars, calcVars, loopObs, bootVars, armObs, toggles, calPending, overRev>>
    /\ UNCHANGED <<killedPending, killedCal, caseObs, pulseObs>>

Next ==
    \/ tach_ISR
    \/ killswitch_ISR
    \/ chargeSpark_ISR
    \/ dischargeSpark_ISR
    \/ startFuel_ISR
    \/ stopFuel_ISR
    \/ loop_switch
    \/ loop_READ_SENSORS
    \/ loop_CALIBRATION_killswitch
    \/ loop_CALIBRATION_rpm
    \/ loop_CALIBRATION_select
    \/ loop_CALIBRATION_false
    \/ loop_ARM_state
    \/ loop_ARM_fuelCycle
    \/ loop_ARM_fuelDuration
    \/ loop_ARM_fuelAngle
    \/ loop_ARM_fuelStart
    \/ loop_ARM_sparkAngle
    \/ loop_ARM_sparkStart
    \/ loop_REV_LIMITER
    \/ loop_SERIAL_OUT
    \/ Advance

Spec == Init /\ [][Next]_vars

(***************************************************************************)
(* The runs of setup(), from reset.  The globals are zero; the level of an *)
(* output pin is not known before setup() writes it.  setup() takes its    *)
(* time, during which the engine may turn and the killswitch be thrown.    *)
(***************************************************************************)
setup_pinMode ==
    /\ SetupAt("pinMode")
    /\ setupPc' = setupPc + 1
    /\ UNCHANGED <<idleVars, envObs, tachVars, pinVars, currState, killswitch, revLimit>>
    /\ UNCHANGED <<attached, driven>>

setup_digitalWrite ==
    /\ SetupAt("digitalWrite")
    /\ setupPc' = setupPc + 1
    /\ LET pin == setup(variant)[setupPc][2]
       IN  /\ SPARK_OUT' = IF pin = "SPARK_OUT" THEN LOW ELSE SPARK_OUT
           /\ FUEL_OUT' = IF pin = "FUEL_OUT" THEN LOW ELSE FUEL_OUT
           /\ driven' = driven \cup {pin}
    /\ UNCHANGED <<idleVars, envObs, tachVars, currState, killswitch, revLimit, attached>>

setup_variables ==
    /\ SetupAt("variables")
    /\ setupPc' = setupPc + 1
    /\ currAngularSpeed' = 0
    /\ calibAngleTime' = 0
    /\ lastCalibAngleTime' = 0
    /\ UNCHANGED <<idleVars, envObs, pinVars, currState, killswitch, revLimit>>
    /\ UNCHANGED <<fuelCycle, serialPrintCount, attached, driven>>

setup_attachInterrupt ==
    /\ SetupAt("attachInterrupt")
    /\ setupPc' = setupPc + 1
    /\ attached' = attached \cup {setup(variant)[setupPc][2]}
    /\ UNCHANGED <<idleVars, envObs, tachVars, pinVars, currState, killswitch, revLimit>>
    /\ UNCHANGED driven

setup_begin ==
    /\ SetupAt("begin")
    /\ setupPc' = setupPc + 1
    /\ UNCHANGED <<idleVars, envObs, tachVars, pinVars, currState, killswitch, revLimit>>
    /\ UNCHANGED <<attached, driven>>

setup_serialPrintCount ==
    /\ SetupAt("serialPrintCount")
    /\ setupPc' = setupPc + 1
    /\ serialPrintCount' = 1
    /\ UNCHANGED <<idleVars, envObs, pinVars, currState, killswitch, revLimit>>
    /\ UNCHANGED <<currAngularSpeed, calibAngleTime, lastCalibAngleTime, fuelCycle>>
    /\ UNCHANGED <<attached, driven>>

setup_killswitch ==
    /\ SetupAt("killswitch")
    /\ setupPc' = setupPc + 1
    /\ killswitch' \in BOOLEAN
    /\ UNCHANGED <<idleVars, envObs, tachVars, pinVars, currState, revLimit>>
    /\ UNCHANGED <<attached, driven>>

setup_fuelCycle ==
    /\ SetupAt("fuelCycle")
    /\ setupPc' = setupPc + 1
    /\ fuelCycle' = FALSE
    /\ UNCHANGED <<idleVars, envObs, pinVars, currState, killswitch, revLimit>>
    /\ UNCHANGED <<currAngularSpeed, calibAngleTime, lastCalibAngleTime, serialPrintCount>>
    /\ UNCHANGED <<attached, driven>>

setup_revLimit ==
    /\ SetupAt("revLimit")
    /\ setupPc' = setupPc + 1
    /\ revLimit' = FALSE
    /\ UNCHANGED <<idleVars, envObs, tachVars, pinVars, currState, killswitch>>
    /\ UNCHANGED <<attached, driven>>

setup_currState ==
    /\ SetupAt("currState")
    /\ setupPc' = setupPc + 1
    /\ currState' = READ_SENSORS
    /\ UNCHANGED <<idleVars, envObs, tachVars, pinVars, killswitch, revLimit>>
    /\ UNCHANGED <<attached, driven>>

Reset ==
    /\ variant \in Variants
    /\ setupPc = 1
    /\ attached = {}
    /\ driven = {}
    /\ pc = "switch"
    /\ sw = READ_SENSORS
    /\ currState = READ_SENSORS
    /\ killswitch = FALSE
    /\ fuelCycle = FALSE
    /\ revLimit = FALSE
    /\ serialPrintCount = 0
    /\ MAPval = 0
    /\ IATval = 0
    /\ currAngularSpeed = 0
    /\ currRPM = 0
    /\ calibAngleTime = 0
    /\ lastCalibAngleTime = 0
    /\ fuelDuration = 0
    /\ sparkChargeAngle = 0
    /\ sparkDischargeAngle = 0
    /\ fuelStartAngle = 0
    /\ currEngineAngle = [milli |-> 0, micro |-> 0]
    /\ micros = 0
    /\ timer = [t \in Timers |-> TimerIdle]
    /\ SPARK_OUT \in BOOLEAN
    /\ FUEL_OUT \in BOOLEAN
    /\ drive \in SetupDrives
    /\ loops = 0
    /\ lines = 0
    /\ linesTotal = 0
    /\ zeroEdges = 0
    /\ call = NoCall
    /\ ret = NoReturn
    /\ RecalcIdle
    /\ DiagIdle
    /\ edges = 0
    /\ toggles = 0
    /\ calPending = FALSE
    /\ overRev = FALSE
    /\ killedPending = FALSE
    /\ killedCal = FALSE
    /\ caseEdge = 0
    /\ caseFuel = FALSE
    /\ armRevs = {}
    /\ fuelRevs = {}
    /\ sparkRise = 0
    /\ fuelRise = 0
    /\ armedDuration = 0
    /\ pulseDuration = 0
    /\ readEdge = 0
    /\ fuelArm = [edge |-> 0, reads |-> 0, delay |-> 0, fired |-> FALSE]
    /\ sparkArm = [edge |-> 0, reads |-> 0, delay |-> 0, fired |-> FALSE]

SetupNext ==
    \/ setup_pinMode
    \/ setup_digitalWrite
    \/ setup_variables
    \/ setup_attachInterrupt
    \/ setup_begin
    \/ setup_serialPrintCount
    \/ setup_killswitch
    \/ setup_fuelCycle
    \/ setup_revLimit
    \/ setup_currState
    \/ killswitch_ISR
    \/ tach_ISR
    \/ Advance

SetupSpec == Reset /\ [][SetupNext]_vars

\* C11: in setup(), whichever of the repository runs, both output pins have
\* been driven LOW once an interrupt handler is attached.
C11_OutputsLowBeforeAttach == attached # {} => driven = OutputPins

(***************************************************************************)
(* The runs in which what is due happens: the main loop never halts, an    *)
(* interrupt that is raised is served, and time passes.  The killswitch is *)
(* thrown or not, as the driver pleases.  The runs of the engine are those *)
(* of FairDrives.                                                          *)
(***************************************************************************)
loop ==
    \/ loop_switch \/ loop_READ_SENSORS
    \/ loop_CALIBRATION_killswitch \/ loop_CALIBRATION_rpm
    \/ loop_CALIBRATION_select \/ loop_CALIBRATION_false
    \/ loop_ARM_state \/ loop_ARM_fuelCycle \/ loop_ARM_fuelDuration
    \/ loop_ARM_fuelAngle \/ loop_ARM_fuelStart \/ loop_ARM_sparkAngle
    \/ loop_ARM_sparkStart \/ loop_REV_LIMITER \/ loop_SERIAL_OUT

FairInit == Init /\ drive \in FairDrives

FairSpec ==
    /\ FairInit /\ [][Next]_vars
    /\ WF_vars(loop) /\ WF_vars(tach_ISR)
    /\ WF_vars(chargeSpark_ISR) /\ WF_vars(dischargeSpark_ISR)
    /\ WF_vars(startFuel_ISR) /\ WF_vars(stopFuel_ISR)
    /\ SF_vars(Advance)

(***************************************************************************)
(* Properties.                                                             *)
(***************************************************************************)
\* the statements of the CRANKING and RUNNING cases
ArmingPcs == {"ARM_state", "ARM_fuelCycle", "ARM_fuelDuration", "ARM_fuelAngle",
              "ARM_fuelStart", "ARM_sparkAngle", "ARM_sparkStart"}

\* a step that starts FUEL_START_TIMER or SPARK_CHARGE_TIMER
ArmingStep == loop_ARM_fuelStart \/ loop_ARM_sparkStart

\* the delays that the two start calls of the case receive
FuelStartDelays == timeToStartFueling(fuelDuration, currAngularSpeed, currEngineAngle)

SparkChargeDelay == timetoChargeSpark(sparkDischargeAngle, currAngularSpeed, currEngineAngle)

\* C1: while killswitch is false, currState is neither CRANKING nor RUNNING
\* and the main loop is not inside the CRANKING or RUNNING case.
C1_NoEngineStateWhileKilled ==
    killswitch = FALSE => currState \notin {CRANKING, RUNNING} /\ pc \notin ArmingPcs

\* C2: once CALIBRATION has seen rpm >= UPPER_REV_LIMIT, no step starts
\* FUEL_START_TIMER or SPARK_CHARGE_TIMER until CALIBRATION sees
\* rpm < LOWER_REV_LIMIT.
C2_NoArmingInsideHysteresis == [][ArmingStep => ~overRev]_vars

\* C3: a start call of the CRANKING or RUNNING case whose delay is negative
\* or below the minimum latch time leaves its timer as it was.
C3_LateEventSkipped ==
    [][/\ (loop_ARM_fuelStart /\ fuelDuration # NaN /\ \A us \in FuelStartDelays : us < MinLatch)
            => timer'[FUEL_START_TIMER] = timer[FUEL_START_TIMER]
       /\ (loop_ARM_sparkStart /\ SparkChargeDelay < MinLatch)
            => timer'[SPARK_CHARGE_TIMER] = timer[SPARK_CHARGE_TIMER]]_vars

\* C4: from a tachometer edge until the loop enters the CALIBRATION case,
\* currState stays CALIBRATION and no arming step runs.
C4_CalibrationNotOverwritten ==
    calPending => currState = CALIBRATION /\ pc \notin {"ARM_fuelStart", "ARM_sparkStart"}

\* C5: chargeSpark_ISR fires only while SPARK_OUT is LOW, SPARK_OUT goes LOW
\* exactly DWELL_TIME after it went HIGH, and while it is HIGH only
\* dischargeSpark_ISR touches SPARK_DISCHARGE_TIMER.
C5_DwellIsExact ==
    [][/\ chargeSpark_ISR => SPARK_OUT = LOW
       /\ dischargeSpark_ISR => SPARK_OUT = HIGH /\ micros - sparkRise = DWELL_TIME
       /\ (SPARK_OUT = HIGH /\ ~dischargeSpark_ISR)
            => timer'[SPARK_DISCHARGE_TIMER] = timer[SPARK_DISCHARGE_TIMER]
       /\ SPARK_OUT' = HIGH
            => /\ timer'[SPARK_DISCHARGE_TIMER].on
               /\ timer'[SPARK_DISCHARGE_TIMER].due = sparkRise' + DWELL_TIME]_vars

\* C6: a CALIBRATION step that compares an rpm below ENGAGE_SPEED selects
\* neither CRANKING nor RUNNING, whatever revLimit is.
C6_NoEngagementBelowEngageSpeed ==
    [][(loop_CALIBRATION_select /\ currRPM < ENGAGE_SPEED)
          => currState' \notin {CRANKING, RUNNING}]_vars

\* C7: killswitch_ISR leaves the timers and the pins alone, a pin that is
\* HIGH has its stop timer running, and once CALIBRATION has read killswitch
\* false no step starts FUEL_START_TIMER or SPARK_CHARGE_TIMER while
\* killswitch stays false; and when the killswitch goes false with a timer
\* running or a pin HIGH, the timers run out and both pins are LOW in the end.
C7_KillLetsPulsesFinishAndArmsNothing ==
    /\ [][/\ killswitch_ISR => timer' = timer /\ pinVars' = pinVars
          /\ SPARK_OUT' = HIGH => timer'[SPARK_DISCHARGE_TIMER].on
          /\ FUEL_OUT' = HIGH => timer'[FUEL_STOP_TIMER].on
          /\ ArmingStep => ~killedCal]_vars
    /\ killedPending ~> (SPARK_OUT = LOW /\ FUEL_OUT = LOW /\ Armed = {})

C10_StartPhaseBeforeStopPhase ==
    [][/\ (timer'[FUEL_STOP_TIMER].on /\ timer'[FUEL_STOP_TIMER] # timer[FUEL_STOP_TIMER])
            => startFuel_ISR
       /\ (timer'[SPARK_DISCHARGE_TIMER].on
             /\ timer'[SPARK_DISCHARGE_TIMER] # timer[SPARK_DISCHARGE_TIMER])
            => chargeSpark_ISR
       /\ stopFuel_ISR => FUEL_OUT = HIGH /\ fuelRise < micros
       /\ dischargeSpark_ISR => SPARK_OUT = HIGH /\ sparkRise < micros]_vars

\* C7 happens: the killswitch went false with a timer running or a pin
\* HIGH, the pulses have finished, and CALIBRATION has since run for a
\* later tachometer edge and read killswitch false.
C7_Witness ==
    /\ killedPending /\ killedCal /\ ~killswitch
    /\ SPARK_OUT = LOW /\ FUEL_OUT = LOW /\ Armed = {}
    /\ edges >= 2 /\ ~calPending /\ pc = "switch"

C10_Witness ==
    /\ SPARK_OUT = LOW /\ ~timer[SPARK_DISCHARGE_TIMER].on
    /\ timer[SPARK_DISCHARGE_TIMER].period = DWELL_TIME
    /\ FUEL_OUT = LOW /\ ~timer[FUEL_STOP_TIMER].on
    /\ ~timer[FUEL_START_TIMER].on /\ timer[FUEL_START_TIMER].period # TimerIdle.period

C13_RevLimitWriters ==
    [][/\ (~revLimit /\ revLimit') => loop_REV_LIMITER
       /\ (revLimit /\ ~revLimit') =>
              /\ loop_CALIBRATION_select
              /\ currRPM < LOWER_REV_LIMIT
              /\ currState' = RUNNING
       /\ (loop_CALIBRATION_select /\ revLimit /\ currRPM >= LOWER_REV_LIMIT) =>
              /\ currState' \notin {CRANKING, RUNNING}
              /\ revLimit'
       /\ ~(loop_REV_LIMITER \/ loop_CALIBRATION_select) => revLimit' = revLimit]_vars

\* the limiter has been left: RUNNING was selected below the engage speed,
\* which only the branch on revLimit does
C13_Witness ==
    /\ sw = CALIBRATION /\ pc = "switch" /\ currState = RUNNING
    /\ ~revLimit /\ currRPM > 0 /\ currRPM < ENGAGE_SPEED

\* C14: the values of currAngularSpeed and calibAngleTime that enter the
\* arming of FUEL_START_TIMER or of SPARK_CHARGE_TIMER are those of one
\* tachometer edge: no tach_ISR has run between the read for the current
\* angle and the read for the target angle and the delay.
C14_ArmingReadsOneEdge ==
    [][(loop_ARM_fuelStart \/ loop_ARM_sparkStart) => readEdge = edges]_vars

\* C15: once setup() has returned, a step that is not tach_ISR leaves
\* calibAngleTime, lastCalibAngleTime, currAngularSpeed, fuelCycle and
\* serialPrintCount as they are, and killswitch_ISR and the interrupts of the
\* four timers leave currState as it is.
C15_TachIsSoleWriter ==
    [][/\ ~tach_ISR =>
              UNCHANGED <<calibAngleTime, lastCalibAngleTime, currAngularSpeed,
                          fuelCycle, serialPrintCount>>
       /\ (\/ killswitch_ISR \/ chargeSpark_ISR \/ dischargeSpark_ISR
           \/ startFuel_ISR \/ stopFuel_ISR) => currState' = currState]_vars

\* chargeSpark_ISR has run at this instant, which is later than the last
\* tachometer edge, and currState is still the CALIBRATION that the edge forced
C15_Witness ==
    /\ SetupDone /\ currState = CALIBRATION /\ micros > calibAngleTime
    /\ SPARK_OUT = HIGH /\ sparkRise = micros

\* C16: the interrupt of a timer stops the timer before it returns, so that
\* the timer, which fires only while it runs, fires once for a start() at
\* most.
C16_CallbackStopsItsTimer ==
    [][/\ chargeSpark_ISR => ~timer'[SPARK_CHARGE_TIMER].on
       /\ dischargeSpark_ISR => ~timer'[SPARK_DISCHARGE_TIMER].on
       /\ startFuel_ISR => ~timer'[FUEL_START_TIMER].on
       /\ stopFuel_ISR => ~timer'[FUEL_STOP_TIMER].on]_vars

\* startFuel_ISR has run at this instant: FUEL_START_TIMER is stopped and
\* FUEL_STOP_TIMER runs
C16_Witness ==
    /\ FUEL_OUT = HIGH /\ fuelRise = micros
    /\ ~timer[FUEL_START_TIMER].on /\ timer[FUEL_STOP_TIMER].on

\* C19: for a positive angular speed, whatever the time since the last
\* tachometer edge, the angle that getCurrAngle returns is at least 0 and less
\* than 360 degrees.
C19_CurrAngleWithinRevolution ==
    [][((loop_ARM_fuelAngle \/ loop_ARM_sparkAngle) /\ currAngularSpeed > 0) =>
          (currEngineAngle'.milli >= 0 /\ currEngineAngle'.milli < 360 * 1000)]_vars

\* an angle [milli-degrees] of at least 0 and less than 360 degrees
WithinRevolution(angle) == angle >= 0 /\ angle < 360 * 1000

\* C20: when a pass of the CRANKING or RUNNING case ends, sparkDischargeAngle,
\* sparkChargeAngle and fuelStartAngle are each at least 0 and less than 360
\* degrees.
C20_AnglesWithinRevolution ==
    [][loop_ARM_sparkStart =>
          /\ WithinRevolution(sparkDischargeAngle')
          /\ WithinRevolution(sparkChargeAngle')
          /\ WithinRevolution(fuelStartAngle')]_vars

\* the angle of the engine [milli-degrees] at the time now, the engine having
\* turned at currAngularSpeed since the last tachometer edge
EngineAngle(now) ==
    (SpeedTimesTime(currAngularSpeed, now - calibAngleTime) + CALIB_ANGLE * 1000)
        % (360 * 1000)

\* what the engine turns [milli-degrees] in the microseconds that the
\* conversion of a delay to a long, and the rounding of an angle, can take away
Slack == 2 * (currAngularSpeed \div 1000) + 3

\* angle a is the angle b, but for the slack
Near(a, b) == a - b <= Slack /\ b - a <= Slack

\* the last start of the timer by the loop was in this revolution, with reads
\* of this revolution and a delay that is not negative: the angular speed has
\* stayed what the arming took it to be
SparkArmedHere == sparkArm.edge = edges /\ sparkArm.reads = edges /\ sparkArm.delay >= 0
FuelArmedHere == fuelArm.edge = edges /\ fuelArm.reads = edges /\ fuelArm.delay >= 0

\* the sparkDischargeAngle of the last start of SPARK_CHARGE_TIMER, the speed
\* being that of the start
ArmedDischargeAngle == sparkChargeAngle + (DWELL_TIME * currAngularSpeed) \div 1000

Half == 65536

U32(hi, lo) == [hi |-> hi, lo |-> lo]

\* a - b of two unsigned ints: the difference modulo 2^32
Minus32(a, b) ==
    LET lo == a.lo - b.lo
        hi == a.hi - b.hi - (IF lo < 0 THEN 1 ELSE 0)
    IN  [hi |-> hi % Half, lo |-> lo % Half]

\* the value of an unsigned int below 2^31
Value32(u) == u.hi * Half + u.lo

\* tach_ISR, its three statements on the times: the times and the speed it
\* leaves, and the divisor of calcSpeed, with micros() = now
tachTimes(now, calib, speed) ==
    LET interval == Value32(Minus32(now, calib))
    IN  [lastCalibAngleTime |-> calib,
         calibAngleTime |-> now,
         interval |-> interval,
         currAngularSpeed |-> calcSpeed(interval, 0, speed)]

(***************************************************************************)
(* The tables (table.cpp).  An axis and the data of a table are arrays of  *)
(* floats, here of small integers; C's index i is the i+1st element.  A    *)
(* read outside an array is undefined: it yields whatever word lies there, *)
(* any float.                                                              *)
(***************************************************************************)
\* the floats that stand for the words outside an array
Wild == {0, 7}

\* the words past the end of an axis that findIndex's loop is followed over
PastEnd == 2

\* vals[i] and what reading it yields
Inside(vals, i) == i \in 0..(Len(vals) - 1)

axisAt(vals, i) == IF Inside(vals, i) THEN {vals[i + 1]} ELSE Wild

\* findIndex(vals, in): for (i = 0; in >= vals[i]; i++); return i - 1;
\* the loop from index i on.  It has no test of i against the length of the
\* axis: past the end it goes on for as long as the words there are at most
\* in.
RECURSIVE findIndexFrom(_, _, _)
findIndexFrom(vals, in, i) ==
    IF Inside(vals, i)
    THEN IF in >= vals[i + 1] THEN findIndexFrom(vals, in, i + 1) ELSE {i - 1}
    ELSE {i - 1 + k : k \in 0..PastEnd}

findIndex(vals, in) == findIndexFrom(vals, in, 0)

\* get3DData(table, x, y, z): the place in data, and what reading it yields
dataAt(table, x, y, z) == z * (table.yAxisLength * table.xAxisWidth) + y * table.xAxisWidth + x

get3DData(table, x, y, z) ==
    IF Inside(table.data, dataAt(table, x, y, z))
    THEN {table.data[dataAt(table, x, y, z) + 1]}
    ELSE Wild

\* n / d in thousandths; a division by zero is infinite, or not a number
Over(n, d) ==
    IF d = 0 THEN (IF n = 0 THEN NaN ELSE Inf)
    ELSE IF d < 0 THEN ((0 - n) * 1000) \div (0 - d)
    ELSE (n * 1000) \div d

\* table3DLookup, lines 55-75, with the indices found: the value returned,
\* in thousandths, the product of the spans that divides, and whether all
\* its reads are inside the arrays
lookupAt(table, xIndex, yIndex, zIndex, x, y, z) ==
    {[value |->
        Over(d000 * (x_1 - x) * (y_1 - y) * (z_1 - z)
           + d001 * (x_1 - x) * (y_1 - y) * (z - z_1)
           + d010 * (x_1 - x) * (y - y_1) * (z_1 - z)
           + d011 * (x_1 - x) * (y - y_1) * (z - z_1)
           + d100 * (x - x_1) * (y_1 - y) * (z_1 - z)
           + d101 * (x - x_1) * (y_1 - y) * (z - z_1)
           + d110 * (x - x_1) * (y - y_1) * (z_1 - z)
           + d111 * (x - x_1) * (y - y_1) * (z - z_1),
             (x_1 - x_0) * (y_1 - y_0) * (z_1 - z_0)),
      span |-> (x_1 - x_0) * (y_1 - y_0) * (z_1 - z_0),
      inside |->
          /\ Inside(table.xVals, xIndex) /\ Inside(table.xVals, xIndex + 1)
          /\ Inside(table.yVals, yIndex) /\ Inside(table.yVals, yIndex + 1)
          /\ Inside(table.zVals, zIndex) /\ Inside(table.zVals, zIndex + 1)
          /\ \A a \in 0..1, b \in 0..1, c \in 0..1 :
                Inside(table.data, dataAt(table, xIndex + a, yIndex + b, zIndex + c))] :
        x_0 \in axisAt(table.xVals, xIndex), x_1 \in axisAt(table.xVals, xIndex + 1),
        y_0 \in axisAt(table.yVals, yIndex), y_1 \in axisAt(table.yVals, yIndex + 1),
        z_0 \in axisAt(table.zVals, zIndex), z_1 \in axisAt(table.zVals, zIndex + 1),
        d000 \in get3DData(table, xIndex, yIndex, zIndex),
        d001 \in get3DData(table, xIndex, yIndex, zIndex + 1),
        d010 \in get3DData(table, xIndex, yIndex + 1, zIndex),
        d011 \in get3DData(table, xIndex, yIndex + 1, zIndex + 1),
        d100 \in get3DData(table, xIndex + 1, yIndex, zIndex),
        d101 \in get3DData(table, xIndex + 1, yIndex, zIndex + 1),
        d110 \in get3DData(table, xIndex + 1, yIndex + 1, zIndex),
        d111 \in get3DData(table, xIndex + 1, yIndex + 1, zIndex + 1)}

\* table3DLookup(table, x, y, z)
table3DLookup(table, x, y, z) ==
    UNION {lookupAt(table, xIndex, yIndex, zIndex, x, y, z) :
              xIndex \in findIndex(table.xVals, x),
              yIndex \in findIndex(table.yVals, y),
              zIndex \in findIndex(table.zVals, z)}

\* a table of 3 by 2 by 2 and one whose x axis has the length 1
Grid322 ==
    [xVals |-> <<1, 2, 4>>, yVals |-> <<0, 3>>, zVals |-> <<5, 6>>,
     xAxisWidth |-> 3, yAxisLength |-> 2,
     data |-> <<10, 20, 40, 13, 23, 43, 15, 25, 45, 18, 29, 50>>]

Single122 ==
    [xVals |-> <<2>>, yVals |-> <<0, 3>>, zVals |-> <<5, 6>>,
     xAxisWidth |-> 1, yAxisLength |-> 2,
     data |-> <<10, 13, 15, 18>>]

Tables == {Grid322, Single122}

\* the queries: below, on, between and above the values of an axis
Queries ==
    {<<x, 1, 5>> : x \in 0..5} \cup {<<x, 0, 5>> : x \in 0..5}
        \cup {<<1, y, 5>> : y \in {0, 1, 3, 4}} \cup {<<2, 0, z>> : z \in {4, 5, 6}}

lookupCalls ==
    {[fn |-> "table3DLookup", args |-> <<table>> \o q] : table \in Tables, q \in Queries}

findIndexCalls ==
    {[fn |-> "findIndex", args |-> <<vals, in>>] :
        vals \in {<<1, 2, 4>>, <<0, 3>>, <<2>>}, in \in (0 - 1)..5}

\* the times of the edges: zero as setup() leaves it, times of a running
\* engine, and times just before the counter of micros() wraps around
Times32 == {U32(0, 0), U32(0, 11000), U32(6, 26784), U32(65535, 54536), U32(65535, 65535)}

\* the speeds before the edge: zero as setup() leaves it, 51 rpm and 5454 rpm
Speeds == {0, 857, 32727}

\* an interval is at most 65536 us times this, about four minutes: the
\* fixed-point speed of a longer interval would round to zero
MaxIntervalHi == 3840

tachCalls ==
    {[fn |-> "tach_ISR", args |-> <<now, calib, speed>>] :
        now \in Times32, calib \in Times32, speed \in Speeds}

(***************************************************************************)
(* The sensors.  readADC returns the 12 bits of the converter.             *)
(***************************************************************************)
\* VOLTS_PER_ADC_BIT 1.221E-3, in microvolts
VOLTS_PER_ADC_BIT == 1221

\* MAX_ADC_VAL 4095.0f
MAX_ADC_VAL == 4095

\* count * VOLTS_PER_ADC_BIT * 18.86, in units of 1E-5 kPa
Times1886(count) == count * 2302 + (count * 806) \div 1000

\* readMAP without the test of the upper voltage
readMAP_NoUpperClamp(count) ==
    IF count * VOLTS_PER_ADC_BIT < 500000
    THEN 20 * 100000
    ELSE Times1886(count) + 1057000

\* readMAP(), with readADC(MAP_ADC_CHNL) = count: the pressure in units of
\* 1E-5 kPa
readMAP(count) ==
    IF count * VOLTS_PER_ADC_BIT < 500000
    THEN 20 * 100000
    ELSE IF count * VOLTS_PER_ADC_BIT > 4900000
    THEN 103 * 100000
    ELSE Times1886(count) + 1057000

readMAPCalls == {[fn |-> "readMAP", args |-> <<count>>] : count \in 0..MAX_ADC_VAL}

\* the speeds of the operating range, in rpm
RPMs == {ENGAGE_SPEED, CRANKING_SPEED, 1000, 3000, LOWER_REV_LIMIT, UPPER_REV_LIMIT}

roundTripCalls == {[fn |-> "convertToRPM(convertFromRPM)", args |-> <<x>>] : x \in RPMs}

\* injectorPulse with the air volumes of the CRANKING case and of the
\* RUNNING case, and the global IATval as the third argument
injectorPulseCalls ==
    {[fn |-> "injectorPulse", args |-> <<airVol, currMAP, IAT>>] :
        airVol \in {CRANK_VOL_EFF * ENGINE_DISPLACEMENT, 65 * ENGINE_DISPLACEMENT},
        currMAP \in {20, 60, 90, 103},
        IAT \in {273, 298}}

Calls ==
    {c \in tachCalls : Minus32(c.args[1], c.args[2]).hi < MaxIntervalHi}
        \cup findIndexCalls \cup lookupCalls \cup injectorPulseCalls
        \cup readMAPCalls \cup roundTripCalls

pureFrame == <<progVars, drive, edges, toggles, calPending, overRev, killedPending,
               killedCal, caseObs, pulseObs, armObs, bootVars, loopObs, call, otherVars>>

\* the function fn returns one of vals
Returns(fn, vals) ==
    /\ call.fn = fn
    /\ ~ret.done
    /\ \E v \in vals : ret' = [done |-> TRUE, val |-> v]
    /\ UNCHANGED pureFrame

apply_tach_ISR ==
    Returns("tach_ISR", {tachTimes(call.args[1], call.args[2], call.args[3])})

apply_findIndex ==
    Returns("findIndex", findIndex(call.args[1], call.args[2]))

apply_table3DLookup ==
    Returns("table3DLookup",
            table3DLookup(call.args[1], call.args[2], call.args[3], call.args[4]))

apply_injectorPulse ==
    Returns("injectorPulse", {injectorPulse(call.args[1], call.args[2], call.args[3])})

apply_readMAP ==
    Returns("readMAP", {readMAP(call.args[1])})

\* convertToRPM(convertFromRPM(x)), in thousandths of an rpm
apply_convertToRPM ==
    Returns("convertToRPM(convertFromRPM)", {Times166667(convertFromRPM(call.args[1]))})

PureInit ==
    /\ variant = ECU
    /\ setupPc = Len(setup(ECU)) + 1
    /\ attached = ISRs
    /\ driven = OutputPins
    /\ readEdge = 0
    /\ fuelArm = [edge |-> 0, reads |-> 0, delay |-> 0, fired |-> FALSE]
    /\ sparkArm = [edge |-> 0, reads |-> 0, delay |-> 0, fired |-> FALSE]
    /\ pc = "switch"
    /\ sw = READ_SENSORS
    /\ currState = READ_SENSORS
    /\ killswitch = FALSE
    /\ fuelCycle = FALSE
    /\ revLimit = FALSE
    /\ serialPrintCount = 1
    /\ MAPval = 0
    /\ IATval = 0
    /\ currAngularSpeed = 0
    /\ currRPM = 0
    /\ calibAngleTime = 0
    /\ lastCalibAngleTime = 0
    /\ fuelDuration = 0
    /\ sparkChargeAngle = 0
    /\ sparkDischargeAngle = 0
    /\ fuelStartAngle = 0
    /\ currEngineAngle = [milli |-> 0, micro |-> 0]
    /\ micros = 0
    /\ timer = [t \in Timers |-> TimerIdle]
    /\ SPARK_OUT = LOW
    /\ FUEL_OUT = LOW
    /\ drive = Cranking2
    /\ edges = 0
    /\ toggles = 0
    /\ calPending = FALSE
    /\ overRev = FALSE
    /\ killedPending = FALSE
    /\ killedCal = FALSE
    /\ caseEdge = 0
    /\ caseFuel = FALSE
    /\ armRevs = {}
    /\ fuelRevs = {}
    /\ sparkRise = 0
    /\ fuelRise = 0
    /\ armedDuration = 0
    /\ pulseDuration = 0
    /\ loops = 0
    /\ lines = 0
    /\ linesTotal = 0
    /\ zeroEdges = 0
    /\ call \in Calls
    /\ ret = NoReturn
    /\ RecalcIdle
    /\ DiagIdle

PureNext ==
    \/ apply_tach_ISR
    \/ apply_findIndex
    \/ apply_table3DLookup
    \/ apply_injectorPulse
    \/ apply_readMAP
    \/ apply_convertToRPM

PureSpec == PureInit /\ [][PureNext]_vars

\* C21: after every execution of tach_ISR, the first after startup and
\* edges whose times coincide or lie on both sides of the wrap of the
\* 32-bit counter of micros() included, the interval calibAngleTime -
\* lastCalibAngleTime that divides is above zero, and currAngularSpeed is
\* finite and above zero.
C21_SpeedFiniteAndPositive ==
    call.fn = "tach_ISR" /\ ret.done
        => /\ ret.val.interval > 0
           /\ ret.val.currAngularSpeed # Inf
           /\ ret.val.currAngularSpeed > 0


\* the values of an axis increase strictly
StrictlyIncreasing(vals) == \A i \in 1..(Len(vals) - 1) : vals[i] < vals[i + 1]

\* the indices of the values of an axis that have an upper neighbour
Lower(vals) == 0..(Len(vals) - 2)

\* C22: at a grid point of a table with strictly increasing axes that has
\* an upper neighbour on each axis, table3DLookup returns the data entry of
\* the point exactly.
C22_GridPointExact ==
    call.fn = "table3DLookup" /\ ret.done
        => LET table == call.args[1]
           IN  \A i \in Lower(table.xVals), j \in Lower(table.yVals), k \in Lower(table.zVals) :
                  /\ StrictlyIncreasing(table.xVals)
                  /\ StrictlyIncreasing(table.yVals)
                  /\ StrictlyIncreasing(table.zVals)
                  /\ call.args[2] = table.xVals[i + 1]
                  /\ call.args[3] = table.yVals[j + 1]
                  /\ call.args[4] = table.zVals[k + 1]
                  => ret.val.value = 1000 * table.data[dataAt(table, i, j, k) + 1]

\* C23: for every query, those below the first value of the axis and those
\* equal to or above the last included, findIndex returns an index i with
\* 0 <= i <= length - 2, and the lookup reads inside its arrays only.
C23_IndexInsideAxis ==
    /\ call.fn = "findIndex" /\ ret.done /\ Len(call.args[1]) >= 2
          => ret.val \in Lower(call.args[1])
    /\ call.fn = "table3DLookup" /\ ret.done /\ Len(call.args[1].xVals) >= 2
          => ret.val.inside

\* C24: when the x axis of the table has the length 1, the lookup reads
\* inside its arrays only, divides by a span that is not zero, and returns
\* the value of the table at the sole x, for every query on that axis.
C24_AxisOfLengthOne ==
    call.fn = "table3DLookup" /\ ret.done /\ Len(call.args[1].xVals) = 1
        => LET table == call.args[1]
           IN  /\ ret.val.inside
               /\ ret.val.span # 0
               /\ \A j \in Lower(table.yVals), k \in Lower(table.zVals) :
                     /\ call.args[3] = table.yVals[j + 1]
                     /\ call.args[4] = table.zVals[k + 1]
                     => ret.val.value = 1000 * table.data[dataAt(table, 0, j, k) + 1]

\* C25: on a strictly increasing axis vals[0..n), a query x with
\* vals[0] <= x < vals[n-1] yields the i with vals[i] <= x < vals[i+1], and
\* a query equal to vals[n-1] yields n - 2.
C25_IndexOfQuery ==
    call.fn = "findIndex" /\ ret.done /\ Len(call.args[1]) >= 2
           /\ StrictlyIncreasing(call.args[1])
        => LET vals == call.args[1]
               x == call.args[2]
               n == Len(vals)
           IN  /\ vals[1] <= x /\ x < vals[n]
                    => /\ ret.val \in Lower(vals)
                       /\ vals[ret.val + 1] <= x
                       /\ x < vals[ret.val + 2]
               /\ x = vals[n] => ret.val = n - 2


\* the open time of the injector in whole microseconds for airVol [1E-9 m^3]
\* of air at MAP [kPa] and IAT [K]: n = airVol * (MAP * 10^3 Pa) / (R * IAT)
\* moles of air [1E-8 mol], m_f = n * MOLAR_MASS_AIR / AIR_FUEL_RATIO grams
\* of fuel [1E-8 g], delivered at MASS_FLOW_RATE
OpenTimeMicros(airVol, kPa, IAT) ==
    LET n == (((airVol * kPa * 100) \div IAT) * 1000) \div R_CONSTANT
        m_f == (n * MOLAR_MASS_AIR) \div AIR_FUEL_RATIO
    IN  m_f \div (10 * MASS_FLOW_RATE)

\* C26: injectorPulse returns, in microseconds, the time the injector must
\* be open to deliver m_f at MASS_FLOW_RATE, with MAP [kPa] multiplied by
\* 10^3; at the cranking inputs MAP = 90 kPa, IAT = 298 K and CRANK_VOL_EFF
\* = 0.30 that is thousands of microseconds.  (ret.val is in picoseconds.)
C26_PulseInMicroseconds ==
    call.fn = "injectorPulse" /\ ret.done
        => /\ ret.val # NaN
           /\ ret.val \div 1000000 = OpenTimeMicros(call.args[1], call.args[2], call.args[3])
           /\ call.args = <<CRANK_VOL_EFF * ENGINE_DISPLACEMENT, 90, 298>>
                 => ret.val \div 1000000 \in 1000..9999


\* C27: for every count of the 12-bit converter readMAP returns 20 kPa
\* below 0.5 V, 103 kPa above 4.9 V and V * 18.86 + 10.57 between; the
\* result lies in [20, 103] kPa and does not decrease as the count grows.
C27_MAPClampedAndMonotone ==
    call.fn = "readMAP" /\ ret.done
        => LET count == call.args[1]
               microvolts == count * 1221
           IN  /\ microvolts < 500000 => ret.val = 2000000
               /\ microvolts > 4900000 => ret.val = 10300000
               /\ microvolts >= 500000 /\ microvolts <= 4900000
                     => ret.val = (microvolts \div 1000) * 1886
                                     + ((microvolts % 1000) * 1886) \div 1000 + 1057000
               /\ ret.val >= 2000000
               /\ ret.val <= 10300000
               /\ count < 4095 => ret.val <= readMAP(count + 1)

\* the last count that is not clamped has returned just under 103 kPa
C27_Witness ==
    /\ call.fn = "readMAP" /\ ret.done
    /\ call.args[1] = 4013
    /\ ret.val > 10290000 /\ ret.val < 10300000


\* the distance of two numbers
Distance(a, b) == IF a < b THEN b - a ELSE a - b

\* C28: for every rpm x of the operating range convertToRPM(convertFromRPM(x))
\* equals x to within the float epsilon 2^-23 of x: the factors 166667 and
\* 6E-6 are inverses of each other.  (ret.val is in thousandths of an rpm.)
C28_RoundTripIsExact ==
    call.fn = "convertToRPM(convertFromRPM)" /\ ret.done
        => Distance(ret.val, 1000 * call.args[1]) * 8388608 <= 1000 * call.args[1]


C30_ReadSensorsWithinThreePasses ==
    /\ [](/\ loops <= 3
          /\ loops = 3 /\ pc = "switch" => currState = READ_SENSORS)
    /\ [][currState = READ_SENSORS /\ currState' # READ_SENSORS => tach_ISR]_vars

\* the edge was served by CALIBRATION, RUNNING and SERIAL_OUT, three passes,
\* and the loop is back in READ_SENSORS
C30_Witness ==
    /\ loops = 3 /\ lines = 1 /\ pc = "switch"
    /\ sw = SERIAL_OUT /\ currState = READ_SENSORS


\* C31: after setup() the print counter is 0 for the first time at the 5th
\* tachometer edge, and from then on at every 10th edge; it stays within
\* 0..9.
C31_FirstPrintAtFifthEdge ==
    /\ serialPrintCount \in 0..9
    /\ serialPrintCount = 0 => edges >= 5 /\ (edges - 5) % 10 = 0
    /\ edges >= 5 /\ (edges - 5) % 10 = 0 => serialPrintCount = 0

ArmingSteps == {"ARM_state", "ARM_fuelCycle", "ARM_fuelDuration", "ARM_fuelAngle",
                "ARM_fuelStart", "ARM_sparkAngle", "ARM_sparkStart"}

\* the loop enters the case CRANKING or RUNNING
EntersArming == pc = "switch" /\ pc' = "ARM_state"

\* the loop starts FUEL_START_TIMER, SPARK_CHARGE_TIMER
StartsFuel == pc = "ARM_fuelStart" /\ pc' = "ARM_sparkAngle"
StartsSpark == pc = "ARM_sparkStart" /\ pc' = "switch"

\* C34: between two consecutive tachometer edges the loop enters the case
\* CRANKING or RUNNING at most once, and starts FUEL_START_TIMER at most once
\* and SPARK_CHARGE_TIMER at most once: none of the three happens in a
\* revolution in which it has happened already.
C34_ArmedOncePerRevolution ==
    [][/\ EntersArming => caseEdge < edges
       /\ StartsFuel => fuelArm.edge < edges
       /\ StartsSpark => sparkArm.edge < edges]_vars

\* C35: no step of the cases CRANKING and RUNNING is taken while
\* currAngularSpeed is 0 or less: the divisor of timeToStartFueling and of
\* timetoChargeSpark is positive, also when tach_ISR has written the speed
\* since the case was entered.
C35_ArmingDivisorPositive == pc \in ArmingSteps => currAngularSpeed > 0

\* a timer is about to be started by a case that was entered one edge ago
C35_Witness ==
    /\ pc \in {"ARM_fuelStart", "ARM_sparkStart"}
    /\ caseEdge < edges
    /\ currAngularSpeed > 0

\* C36: while the first tachometer edge after start-up is the only one,
\* CALIBRATION selects neither CRANKING nor RUNNING, and neither
\* FUEL_START_TIMER nor SPARK_CHARGE_TIMER runs.
C36_NothingArmedOnFirstEdge ==
    edges = 1 =>
        /\ currState \notin {CRANKING, RUNNING}
        /\ pc \notin ArmingSteps
        /\ ~timer[FUEL_START_TIMER].on
        /\ ~timer[SPARK_CHARGE_TIMER].on

(***************************************************************************)
(* loop() in DIAGNOSTIC_MODE: the sensors are read and printed, one        *)
(* character of SERIAL_PORT is read if there is one, and the loop waits a  *)
(* second.  The host sends the characters at any time.  The engine stands: *)
(* no tachometer edge comes, and the expiry of the two timers of a test is *)
(* not followed, their interrupts writing nothing that the loop reads.     *)
(***************************************************************************)
\* the characters the host sends: the three commands and another one
Chars == {"l", "s", "f", "x"}

\* the number of characters the host sends
MaxChars == 4

\* the number of passes of the loop
MaxPasses == 5

\* delay(1000) [us]
PassDelay == 1000000

\* SPARK_CHARGE_TIMER.start(2000000), FUEL_START_TIMER.start(2000000) [us]
TestDelay == 2000000

\* fuelDuration = 10000: ten milliseconds, which the fixed point of
\* fuelDuration does not hold and are kept as the number of microseconds
TestFuelDuration == [us |-> 10000]

NoTimer == "none"

\* the branches below with commandLock kept after a test
command_KeepsLock(serialChar, lock) ==
    IF serialChar = "l"
    THEN [commandLock |-> TRUE, start |-> NoTimer]
    ELSE IF serialChar = "s" /\ lock
         THEN [commandLock |-> lock, start |-> SPARK_CHARGE_TIMER]
         ELSE IF serialChar = "f" /\ lock
              THEN [commandLock |-> lock, start |-> FUEL_START_TIMER]
              ELSE [commandLock |-> lock, start |-> NoTimer]

\* the branches on serialChar: the value of commandLock they leave and the
\* timer they start
command(serialChar, lock) ==
    IF serialChar = "l"
    THEN [commandLock |-> TRUE, start |-> NoTimer]
    ELSE IF serialChar = "s" /\ lock
         THEN [commandLock |-> FALSE, start |-> SPARK_CHARGE_TIMER]
         ELSE IF serialChar = "f" /\ lock
              THEN [commandLock |-> FALSE, start |-> FUEL_START_TIMER]
              ELSE [commandLock |-> lock, start |-> NoTimer]

\* the host sends a character
host_sends ==
    /\ sent < MaxChars
    /\ \E c \in Chars : rx' = Append(rx, c)
    /\ sent' = sent + 1
    /\ UNCHANGED <<commandLock, unlocked, unlocks, tests>>
    /\ UNCHANGED <<progVars, drive, recalcVars, calcVars, loopObs, bootVars, armObs, edges, toggles, calPending, overRev>>
    /\ UNCHANGED <<killedPending, killedCal, caseObs, pulseObs>>

\* a pass of the loop in which SERIAL_PORT.available() is 0
loop_DIAGNOSTIC_idle ==
    /\ micros < MaxPasses * PassDelay
    /\ rx = << >>
    /\ MAPval' \in MAPvals
    /\ IATval' \in IATvals
    /\ killswitch' \in BOOLEAN
    /\ micros' = micros + PassDelay
    /\ UNCHANGED <<pc, sw, currState, revLimit, currRPM, timer>>
    /\ UNCHANGED <<tachVars, schedVars, pinVars, drive, otherVars, calcVars, loopObs, bootVars, armObs, toggles, calPending, overRev>>
    /\ UNCHANGED <<killedPending, killedCal, caseObs, pulseObs>>

\* a pass of the loop in which a character is read
loop_DIAGNOSTIC_read ==
    /\ micros < MaxPasses * PassDelay
    /\ rx # << >>
    /\ MAPval' \in MAPvals
    /\ IATval' \in IATvals
    /\ killswitch' \in BOOLEAN
    /\ LET serialChar == Head(rx)
           branch == command(serialChar, commandLock)
       IN  /\ rx' = Tail(rx)
           /\ commandLock' = branch.commandLock
           /\ timer' = IF branch.start = NoTimer
                       THEN timer
                       ELSE [timer EXCEPT ![branch.start] = TimerStart(@, TestDelay, micros)]
           /\ fuelDuration' = IF branch.start = FUEL_START_TIMER
                              THEN TestFuelDuration
                              ELSE fuelDuration
           /\ tests' = IF branch.start = NoTimer THEN tests ELSE tests + 1
           /\ unlocks' = IF serialChar = "l" THEN unlocks + 1 ELSE unlocks
           /\ unlocked' = IF serialChar = "l" THEN TRUE
                          ELSE IF branch.start = NoTimer THEN unlocked ELSE FALSE
    /\ micros' = micros + PassDelay
    /\ UNCHANGED sent
    /\ UNCHANGED <<pc, sw, currState, revLimit, currRPM>>
    /\ UNCHANGED <<sparkChargeAngle, sparkDischargeAngle, fuelStartAngle, currEngineAngle>>
    /\ UNCHANGED <<tachVars, pinVars, drive, recalcVars, calcVars, loopObs, bootVars, armObs, toggles, calPending, overRev>>
    /\ UNCHANGED <<killedPending, killedCal, caseObs, pulseObs>>

\* the state once setup() has returned, the engine standing
DiagInit ==
    /\ Init
    /\ drive = Cranking2

DiagNext ==
    \/ host_sends
    \/ loop_DIAGNOSTIC_idle
    \/ loop_DIAGNOSTIC_read

DiagSpec == DiagInit /\ [][DiagNext]_vars

\* C37: in DIAGNOSTIC_MODE a test timer is started only when an 'l' has been
\* read since start-up or since the last start of a test timer, commandLock
\* is false after every such start, and the starts are no more than the 'l'
\* that were read.
C37_OneTestPerUnlock ==
    /\ [][tests' > tests => unlocked /\ ~commandLock']_vars
    /\ [](tests <= unlocks)

\* two tests have been started, each after an unlock of its own
C37_Witness ==
    /\ tests = 2
    /\ unlocks = 2
    /\ timer[SPARK_CHARGE_TIMER].on
    /\ timer[FUEL_START_TIMER].on
    /\ ~commandLock

(***************************************************************************)
(* The firmware of src/src/ecu/spi_adc.cpp.  A tachometer tick comes once  *)
(* a revolution; loop() computes the events of the revolution and starts   *)
(* the two timers when the flag recalc is set, and clears the flag;        *)
(* sparkISR sets it when the coil is discharged.  A pass of the loop is    *)
(* one step, taken at the instant of its calls of micros().  Angles are in *)
(* milli-degrees, instantDPMS in 1E-6 deg/us, fuelDuration in us.          *)
(***************************************************************************)
SPARK_TIMER == "SPARK"
FUEL_TIMER == "FUEL"
RecalcTimers == {SPARK_TIMER, FUEL_TIMER}

DWELLTIME == 5000
ANGLE_PER_TOOTH == 360

\* the runs of the engine: the intervals [us] between the ticks, the first
\* counted from start-up.  A steady engine at 3000 rpm; the same engine
\* started a second after the board; an engine whose revolution shortens
\* from 20 ms to 10 ms; one that slows down and speeds up again.
Steady3 == <<20000, 20000, 20000>>
LateStart3 == <<1000000, 20000, 20000>>
Halving2 == <<20000, 10000>>
Surging4 == <<20000, 30000, 14000, 20000>>
RecalcDrives == {Steady3, LateStart3, Halving2, Surging4}

\* the times [us] after a tick at which a pass of the loop is looked at,
\* besides the instants of the ticks and of the timers
RecalcDelays == {100, 13550, 14000}

\* the time [us] after the last tick of a run during which the model follows
\* the program
RecalcHorizon == 60000

\* the unsigned int that the conversion of a float outside its range yields
\* (a negative one, an infinite one, a NaN): the conversion is undefined, the
\* value is any unsigned int; one that is not more than 128 and one that is
\* stand for them
WildUnsigned == {0, 2000000000}

\* instantDPMS = ANGLE_PER_TOOTH / predictedTickDelta
DPMSOf(predicted) ==
    IF predicted = 0 THEN Inf ELSE (ANGLE_PER_TOOTH * 1000000) \div predicted

\* fuelDuration = airVolume * mapVal * 1013 / (R_CONSTANT * AMBIENT_TEMP *
\* AIR_FUEL_RATIO * MASS_FLOW_RATE) with airVolume = ve * ENGINE_DISPLACEMENT,
\* converted to int; ve is in hundredths, map in hundredths, the engine has
\* 49 cc and the divisor is 287 * 298 * 14.7 * 0.0006 = 754.3393
fuelDurationOf(ve, map) == (ve * 49 * map * 1013) \div 7543393

\* sparkChargeAngle = sparkAdvAngle - DWELLTIME * instantDPMS
chargeAngleOf(advAngle, w) ==
    IF w = Inf THEN 0 - Inf ELSE advAngle - (DWELLTIME * w) \div 1000

\* fuelStartAngle = fuelEndAngle - fuelDuration * instantDPMS, fuelEndAngle = TDC - 60
startAngleOf(dur, w) ==
    IF w = Inf THEN 0 - Inf ELSE (TDC - 60) * 1000 - (dur * w) \div 1000

\* approxAngle = lastToothAngle + (micros() - lastTick) * instantDPMS;
\* (target - approxAngle) / instantDPMS converted to unsigned int, as the set
\* of the values that the conversion can yield.  lastToothAngle is CALIB_ANGLE,
\* which is 0 in this firmware.
TimeUntil(target, elapsed, w) ==
    IF w <= 0 \/ w = Inf
    THEN WildUnsigned
    ELSE LET diff == target - SpeedTimesTime(w, elapsed)
         IN  IF diff >= 0
             THEN {(diff * 1000) \div w}
             ELSE IF 0 - diff <= (w - 1) \div 1000
                  THEN {0}
                  ELSE WildUnsigned

\* the readings of the manifold pressure, the share of the time MAP_IN is
\* HIGH, in hundredths
MapDuties == {60}

\* the next tick of the run is due
TickDue == ticks < Len(drive) /\ micros - lastTick = drive[ticks + 1]

tacISR ==
    /\ TickDue
    /\ prevTick' = lastTick
    /\ lastTick' = micros
    /\ prevTickDelta' = lastTickDelta
    /\ lastTickDelta' = micros - lastTick
    /\ predictedTickDelta' = 2 * lastTickDelta' - prevTickDelta'
    /\ instantDPMS' = DPMSOf(predictedTickDelta')
    /\ ticks' = ticks + 1
    /\ UNCHANGED <<recalc, chargingSpark, fuelOpen, useFuel, sparkChargeTime, fuelStartTime, skips>>
    /\ UNCHANGED <<progVars, drive, diagVars, calcVars, loopObs, bootVars, armObs, edges, toggles, calPending, overRev>>
    /\ UNCHANGED <<killedPending, killedCal, caseObs, pulseObs>>

sparkISR ==
    /\ Expired(SPARK_TIMER)
    /\ IF chargingSpark
       THEN /\ SPARK_OUT' = LOW
            /\ chargingSpark' = FALSE
            /\ recalc' = TRUE
            /\ useFuel' = ~useFuel
            /\ timer' = [timer EXCEPT ![SPARK_TIMER] = TimerStop(@)]
       ELSE /\ SPARK_OUT' = HIGH
            /\ chargingSpark' = TRUE
            /\ timer' = [timer EXCEPT ![SPARK_TIMER] =
                            TimerStart(TimerStop(@), DWELLTIME - 127, micros)]
            /\ UNCHANGED <<recalc, useFuel>>
    /\ UNCHANGED <<fuelOpen, lastTick, lastTickDelta, prevTick, prevTickDelta>>
    /\ UNCHANGED <<predictedTickDelta, instantDPMS, sparkChargeTime, fuelStartTime, ticks, skips>>
    /\ UNCHANGED <<pc, sw, currState, killswitch, revLimit, currRPM, micros, FUEL_OUT>>
    /\ UNCHANGED <<tachVars, schedVars, sensorVars, drive, diagVars, calcVars, loopObs, bootVars, armObs, toggles, calPending, overRev>>
    /\ UNCHANGED <<killedPending, killedCal, caseObs, pulseObs>>

fuelISR ==
    /\ Expired(FUEL_TIMER)
    /\ IF fuelOpen
       THEN /\ FUEL_OUT' = LOW
            /\ fuelOpen' = FALSE
            /\ timer' = [timer EXCEPT ![FUEL_TIMER] = TimerStop(@)]
       ELSE /\ FUEL_OUT' = HIGH
            /\ fuelOpen' = TRUE
            /\ timer' = [timer EXCEPT ![FUEL_TIMER] =
                            TimerStart(TimerStop(@),
                                       IF fuelDuration > 128 THEN fuelDuration - 127 ELSE 1,
                                       micros)]
    /\ UNCHANGED <<recalc, chargingSpark, useFuel, lastTick, lastTickDelta, prevTick, prevTickDelta>>
    /\ UNCHANGED <<predictedTickDelta, instantDPMS, sparkChargeTime, fuelStartTime, ticks, skips>>
    /\ UNCHANGED <<pc, sw, currState, killswitch, revLimit, currRPM, micros, SPARK_OUT>>
    /\ UNCHANGED <<tachVars, schedVars, sensorVars, drive, diagVars, calcVars, loopObs, bootVars, armObs, toggles, calPending, overRev>>
    /\ UNCHANGED <<killedPending, killedCal, caseObs, pulseObs>>

\* loop(), if (recalc) { ... recalc = FALSE; }
loop_recalc ==
    /\ recalc
    /\ \E mapVal \in MapDuties :
          LET w == instantDPMS
              rpm == IF w = Inf THEN Inf ELSE convertToRPM(w)
              elapsed == micros - lastTick
              sparkAdvAngle == (TDC - SATableLookup(rpm, mapVal)) * 1000
              duration == fuelDurationOf(VETableLookup(rpm, mapVal), mapVal)
          IN  /\ fuelDuration' = duration
              /\ fuelStartAngle' = startAngleOf(duration, w)
              /\ sparkChargeAngle' = chargeAngleOf(sparkAdvAngle, w)
              /\ sparkChargeTime' \in TimeUntil(sparkChargeAngle', elapsed, w)
              /\ fuelStartTime' \in IF useFuel
                                    THEN TimeUntil(fuelStartAngle', elapsed, w)
                                    ELSE {fuelStartTime}
              /\ timer' = [t \in RecalcTimers |->
                            IF t = SPARK_TIMER /\ sparkChargeTime' > MinLatch /\ ~chargingSpark
                            THEN TimerStart(timer[t], sparkChargeTime' - 127, micros)
                            ELSE IF t = FUEL_TIMER /\ useFuel /\ fuelStartTime' > MinLatch
                                                  /\ ~fuelOpen
                                 THEN TimerStart(timer[t], fuelStartTime' - 127, micros)
                                 ELSE timer[t]]
              /\ skips' = IF sparkChargeTime' > MinLatch /\ ~chargingSpark
                          THEN skips ELSE skips + 1
    /\ recalc' = FALSE
    /\ UNCHANGED <<chargingSpark, fuelOpen, useFuel, lastTick, lastTickDelta, prevTick, prevTickDelta>>
    /\ UNCHANGED <<predictedTickDelta, instantDPMS, ticks>>
    /\ UNCHANGED <<pc, sw, currState, killswitch, revLimit, currRPM, micros>>
    /\ UNCHANGED <<sparkDischargeAngle, currEngineAngle>>
    /\ UNCHANGED <<tachVars, sensorVars, pinVars, drive, diagVars, calcVars, loopObs, bootVars, armObs, toggles, calPending, overRev>>
    /\ UNCHANGED <<killedPending, killedCal, caseObs, pulseObs>>

\* time passes up to the next instant the model looks at
RecalcInstants ==
    {lastTick + p : p \in RecalcDelays}
        \cup (IF ticks < Len(drive) THEN {lastTick + drive[ticks + 1]} ELSE {})
        \cup {timer[t].due : t \in {t \in RecalcTimers : timer[t].on}}

RecalcAdvance ==
    /\ ~TickDue
    /\ \A t \in RecalcTimers : ~Expired(t)
    /\ \E next \in RecalcInstants :
          /\ next > micros
          /\ \A other \in RecalcInstants : other > micros => next <= other
          /\ ticks < Len(drive) \/ next - lastTick <= RecalcHorizon
          /\ micros' = next
    /\ UNCHANGED <<pc, sw, currState, killswitch, revLimit, currRPM, timer>>
    /\ UNCHANGED <<tachVars, schedVars, sensorVars, pinVars, drive, otherVars, calcVars, loopObs, bootVars, armObs, toggles, calPending, overRev>>
    /\ UNCHANGED <<killedPending, killedCal, caseObs, pulseObs>>

\* the state once setup() has returned
RecalcInit ==
    /\ recalc = TRUE
    /\ chargingSpark = FALSE
    /\ fuelOpen = FALSE
    /\ useFuel = TRUE
    /\ lastTick = 0
    /\ lastTickDelta = 0
    /\ prevTick = 0
    /\ prevTickDelta = 0
    /\ predictedTickDelta = 0
    /\ instantDPMS = 0
    /\ sparkChargeTime = 0
    /\ fuelStartTime = 0
    /\ ticks = 0
    /\ skips = 0
    /\ DiagIdle
    /\ timer = [t \in RecalcTimers |-> TimerIdle]
    /\ drive \in RecalcDrives
    /\ fuelDuration = 0
    /\ sparkChargeAngle = 0
    /\ fuelStartAngle = 0
    /\ micros = 0
    /\ SPARK_OUT = LOW
    /\ FUEL_OUT = LOW
    \* what this firmware has not
    /\ variant = ECU
    /\ setupPc = Len(setup(ECU)) + 1
    /\ attached = {}
    /\ driven = OutputPins
    /\ readEdge = 0
    /\ fuelArm = [edge |-> 0, reads |-> 0, delay |-> 0, fired |-> FALSE]
    /\ sparkArm = [edge |-> 0, reads |-> 0, delay |-> 0, fired |-> FALSE]
    /\ pc = "switch"
    /\ sw = READ_SENSORS
    /\ currState = READ_SENSORS
    /\ killswitch = FALSE
    /\ fuelCycle = FALSE
    /\ revLimit = FALSE
    /\ serialPrintCount = 0
    /\ MAPval = 0
    /\ IATval = 0
    /\ currAngularSpeed = 0
    /\ currRPM = 0
    /\ calibAngleTime = 0
    /\ lastCalibAngleTime = 0
    /\ sparkDischargeAngle = 0
    /\ currEngineAngle = [milli |-> 0, micro |-> 0]
    /\ loops = 0
    /\ lines = 0
    /\ linesTotal = 0
    /\ zeroEdges = 0
    /\ call = NoCall
    /\ ret = NoReturn
    /\ edges = 0
    /\ toggles = 0
    /\ calPending = FALSE
    /\ overRev = FALSE
    /\ killedPending = FALSE
    /\ killedCal = FALSE
    /\ caseEdge = 0
    /\ caseFuel = FALSE
    /\ armRevs = {}
    /\ fuelRevs = {}
    /\ sparkRise = 0
    /\ fuelRise = 0
    /\ armedDuration = 0
    /\ pulseDuration = 0

RecalcNext ==
    \/ tacISR
    \/ sparkISR
    \/ fuelISR
    \/ loop_recalc
    \/ RecalcAdvance

RecalcSpec == RecalcInit /\ [][RecalcNext]_vars

\* recalc is FALSE and SPARK_TIMER is stopped: sparkISR, the only writer of
\* recalc = TRUE, is not to come, and the loop does nothing
Stalled == ~recalc /\ ~timer[SPARK_TIMER].on

\* C32: the loop of src/src/ecu/spi_adc.cpp never stalls: whenever it has
\* cleared recalc, also in a pass that skipped the start of a timer, the
\* SPARK_TIMER whose interrupt sets recalc again is running.
C32_NeverStalls == ~Stalled

\* C38: after every tachometer tick predictedTickDelta is more than 0 and
\* instantDPMS is finite and more than 0.
C38_PredictedIntervalPositive ==
    ticks > 0 =>
        /\ predictedTickDelta > 0
        /\ instantDPMS > 0
        /\ instantDPMS # Inf

=============================================================================
